---- MODULE Spec2Model ----
(***************************************************************************)
(* State-machine models of the RVPF native components:                     *)
(*   - the handles map of the store bridge (store/HandlesMap.c),           *)
(*   - the engine side of the PIPE endpoint (lib/impl/rvpf_pipe.c),        *)
(*   - the XPVPC client over its byte stream (lib/impl/rvpf_xpvpc.c,       *)
(*     lib/impl/rvpf_ssl.c).                                               *)
(* Each component has its own specification (SpecMap, SpecPipe, SpecXpvpc);*)
(* the variables of the other components stay at their initial values.     *)
(***************************************************************************)
EXTENDS Integers, Sequences, FiniteSets, TLC

VARIABLES
    \* struct c_store_handles_map (HandlesMap.c:46-51)
    table, capacity, size, threshold,
    \* the mapping a caller expects from the calls made so far
    shadow,
    \* rvpf_pipe_status, and where the driver stands: "idle" between requests,
    \* "request" while it holds one, "stopped" after the resumption point
    rvpf_pipe_status, pipePc,
    \* struct rvpf_pipe_engineRequest (rvpf_pipe.c:52-74); <<>> when none is held
    request,
    \* the lines written to stdout for the request ended last
    out,
    \* the request as it stood when endEngineRequest was called; <<>> before
    ended,
    \* struct rvpf_xpvpc_context with the state of its stream
    \* (rvpf_xpvpc.c:54-65), and the process-wide _autoFlush (rvpf_xpvpc.c:89)
    ctx, _autoFlush,
    \* "live" while the context exists, "disposed" after dispose, "crashed"
    \* once the process went down
    xpPc,
    \* the documents transmitted on the context so far, in order
    wire,
    \* the last call made on the context: what it returned and did, and how
    \* the context stood when it was made
    lastOp,
    \* what has happened on the context so far: no call failed (nofail), a
    \* login succeeded on this connection (loggedIn), a pending batch was
    \* dropped by clearError (discarded)
    ghost,
    \* the arguments of one rvpf_xpvpc_sendValue call, and the element the
    \* call adds to the text for them ("none" before the call)
    elArgs, elText,
    \* struct rvpf_ssl_context (rvpf_ssl.c:48-65) used on its own, and the
    \* last call made on it: its name, what it returned, and the number of
    \* calls it made to the network
    stream, streamLast,
    \* the address handed to the last rvpf_ssl_open (NULL after any other
    \* call)
    streamArg,
    \* one PointValue line of the PIPE protocol: the PointValue it is written
    \* for, who writes it (pvMode), the line, and what _fillPointValue makes
    \* of it
    pvIn, pvMode, pvLine, pvOut,
    \* the reader process: argv[1] (mode), the log level (_level), the
    \* lines left on stdin, the lines written to stdout, its
    \* rvpf_pipe_status, where main stands ("boundary" between requests,
    \* "held" with a request, "returned", "crashed"), the request the driver
    \* holds, the number of requests allocated and not freed, <<>> or the
    \* value main returned, and the last call of the driver
    mode, _level, stdin, stdout, readerStatus, mainPc, held, live, exitCode,
    readLast,
    \* an engine request held by the driver (its lists), and the last
    \* accessor called on it: its name, the position asked for and what
    \* came back
    getRequest, getLast,
    \* the store's value codec: the argument of the call, the value built
    \* or received, what the last decoder gave back, and where the driver is
    storeArg, storeValue, storeOut, storePc,
    \* the store bridge: the number of host threads and the vm argument they
    \* pass; the globals of ProxyStoreImpl.c; the Java VM of the process; the
    \* contexts (live, connected); where each thread is in its call; the
    \* last call that returned; whether the process is still running
    proxyThreads, proxyVm, _contexts, _javaVM, _jvmHandle, _storeProxyClass,
    proxyJvm, proxies, proxyThread, proxyLast, proxyPc,
    \* a text buffer: whose it is; its capacity, position and memory; the
    \* last operation and the growth it made; whether the process runs
    textKind, textBuf, textLast, textPc,
    \* the encoding of a text: the text, the quote and the build; the bytes
    \* added to the message
    encArg, encOut

mapVars == <<table, capacity, size, threshold, shadow>>
pipeVars == <<rvpf_pipe_status, pipePc, request, out, ended>>

xpVars == <<ctx, _autoFlush, xpPc, wire, lastOp, ghost>>
elVars == <<elArgs, elText>>
streamVars == <<stream, streamLast, streamArg>>
codecVars == <<pvIn, pvMode, pvLine, pvOut>>
readerVars == <<mode, _level, stdin, stdout, readerStatus, mainPc, held, live,
                exitCode, readLast>>

getterVars == <<getRequest, getLast>>
storeVars == <<storeArg, storeValue, storeOut, storePc>>
proxyVars == <<proxyThreads, proxyVm, _contexts, _javaVM, _jvmHandle,
               _storeProxyClass, proxyJvm, proxies, proxyThread, proxyLast,
               proxyPc>>
textVars == <<textKind, textBuf, textLast, textPc>>
encVars == <<encArg, encOut>>

vars == <<mapVars, pipeVars, xpVars, elVars, streamVars, codecVars,
    readerVars, getterVars, storeVars, proxyVars, textVars, encVars>>

(***************************************************************************)
(* Bounds of the model.                                                    *)
(***************************************************************************)
MaxKey == 6
MaxVal == 2
MaxCap == 8
MaxInitialLoad == 2
MaxExtras == 3
MaxId == 2
MaxPending == 2
MaxAutoFlush == 2
MaxBytes == 3
MaxNameLen == 2
MaxTextLen == 2
MaxLines == 3
MaxParams == 2
MaxPosition == 3
MaxRaw == 3
MaxThreads == 2
MaxContexts == 2
MaxCount == 3
InitialCapacity == 2
MemCells == 16
MaxAdded == 3
MaxEncoded == 3
MAX_BYTES_BLOCK == 65534

(***************************************************************************)
(* 32-bit unsigned arithmetic on hash_t, held as <<high, low>> 16-bit      *)
(* halves so that every intermediate value fits the integers of TLC.      *)
(***************************************************************************)
W16 == 65536

RECURSIVE XorBits(_, _, _)
XorBits(a, b, n) ==
    IF n = 0 THEN 0
    ELSE (((a % 2) + (b % 2)) % 2) + 2 * XorBits(a \div 2, b \div 2, n - 1)

WordOf(k) == <<k \div W16, k % W16>>
WNot(w) == <<(W16 - 1) - w[1], (W16 - 1) - w[2]>>
WAdd(a, b) ==
    LET lo == a[2] + b[2]
    IN <<(a[1] + b[1] + (lo \div W16)) % W16, lo % W16>>
WShl(w, n) ==
    LET lo == w[2] * (2 ^ n)
    IN <<(w[1] * (2 ^ n) + (lo \div W16)) % W16, lo % W16>>
WShr(w, n) ==
    <<w[1] \div (2 ^ n), (w[2] \div (2 ^ n)) + ((w[1] % (2 ^ n)) * (2 ^ (16 - n)))>>
WXor(a, b) == <<XorBits(a[1], b[1], 16), XorBits(a[2], b[2], 16)>>

(***************************************************************************)
(* The handles map.                                                        *)
(***************************************************************************)
MAXIMUM_CAPACITY == 1073741824
MAXIMUM_SIZE == 2147483647

Keys == 1 .. MaxKey
Vals == 1 .. MaxVal

\* threshold = capacity * LOAD_FACTOR, truncated to size_t
LoadThreshold(cap) == (cap * 3) \div 4

\* the four scrambling steps of _indexFor on hash_t
HashOf(key) ==
    LET h0 == WordOf(key)
        h1 == WAdd(h0, WNot(WShl(h0, 9)))
        h2 == WXor(h1, WShr(h1, 14))
        h3 == WAdd(h2, WShl(h2, 4))
    IN WXor(h3, WShr(h3, 10))

\* the scrambled hash of every key of the model, computed once
HashTable == [key \in 1 .. MaxKey |-> HashOf(key)]

\* hash & (capacity - 1), the capacity being a power of two below 2^16
_indexFor(cap, key) == HashTable[key][2] % cap

EmptyTable(cap) == [i \in 0 .. cap - 1 |-> <<>>]

RECURSIVE CreateCapacity(_, _)
CreateCapacity(cap, initialCapacity) ==
    IF cap < initialCapacity THEN CreateCapacity(cap * 2, initialCapacity) ELSE cap

\* HandlesMap_create: the capacity for an initial load size
HandlesMap_create(initialLoadSize) ==
    CreateCapacity(1, 1 + ((initialLoadSize * 4) \div 3))

\* position of key in a chain (head is 1), 0 when absent
RECURSIVE ChainFind(_, _, _)
ChainFind(chain, key, i) ==
    IF i > Len(chain) THEN 0
    ELSE IF chain[i].key = key THEN i
    ELSE ChainFind(chain, key, i + 1)

HandlesMap_get(key) ==
    LET chain == table[_indexFor(capacity, key)]
        p == ChainFind(chain, key, 1)
    IN IF p = 0 THEN 0 ELSE chain[p].value

\* the entries in the order HandlesMap_keys and HandlesMap_values walk them
RECURSIVE WalkEntries(_, _, _)
WalkEntries(tbl, cap, i) ==
    IF i >= cap THEN <<>> ELSE tbl[i] \o WalkEntries(tbl, cap, i + 1)

HandlesMap_keys == [i \in 1 .. Len(WalkEntries(table, capacity, 0)) |->
                        WalkEntries(table, capacity, 0)[i].key]
HandlesMap_values == [i \in 1 .. Len(WalkEntries(table, capacity, 0)) |->
                        WalkEntries(table, capacity, 0)[i].value]
HandlesMap_size == size

\* _rehash's relinking loop: each old entry becomes the head of its new chain
RECURSIVE Relink(_, _, _, _)
Relink(entries, i, newTable, newCap) ==
    IF i > Len(entries) THEN newTable
    ELSE LET index == _indexFor(newCap, entries[i].key)
         IN Relink(entries, i + 1,
                   [newTable EXCEPT ![index] = <<entries[i]>> \o @], newCap)

\* a rehash that allocates the new table and relinks nothing
_rehash_Unlinked(tbl, cap) ==
    [table |-> EmptyTable(cap * 2), capacity |-> cap * 2,
     threshold |-> LoadThreshold(cap * 2)]

_rehash(tbl, cap) ==
    IF cap = MAXIMUM_CAPACITY
    THEN [table |-> tbl, capacity |-> cap, threshold |-> MAXIMUM_SIZE]
    ELSE [table |-> Relink(WalkEntries(tbl, cap, 0), 1, EmptyTable(cap * 2), cap * 2),
          capacity |-> cap * 2,
          threshold |-> LoadThreshold(cap * 2)]

\* what HandlesMap_remove leaves of a chain whose entry at position p is removed
RemoveFromChain(chain, p) ==
    IF p > 1
    THEN SubSeq(chain, 1, p - 1) \o SubSeq(chain, p + 1, Len(chain))
    ELSE <<>>

MapFrame == UNCHANGED <<pipeVars, xpVars, elVars, streamVars, codecVars,
    readerVars, getterVars, storeVars, proxyVars, textVars, encVars>>

MapInit ==
    /\ \E n \in 0 .. MaxInitialLoad :
          /\ capacity = HandlesMap_create(n)
          /\ threshold = LoadThreshold(HandlesMap_create(n))
          /\ table = EmptyTable(HandlesMap_create(n))
    /\ size = 0
    /\ shadow = [k \in Keys |-> 0]

HandlesMap_put(key, value) ==
    LET index == _indexFor(capacity, key)
        chain == table[index]
        p == ChainFind(chain, key, 1)
    IN IF p # 0
       THEN /\ table' = [table EXCEPT ![index][p].value = value]
            /\ UNCHANGED <<capacity, size, threshold>>
            /\ shadow' = [shadow EXCEPT ![key] = value]
       ELSE LET linked == [table EXCEPT
                              ![index] = <<[key |-> key, value |-> value]>> \o @]
                grown == _rehash(linked, capacity)
            IN /\ (size + 1 > threshold) => capacity * 2 <= MaxCap
               /\ size' = size + 1
               /\ IF size + 1 > threshold
                  THEN /\ table' = grown.table
                       /\ capacity' = grown.capacity
                       /\ threshold' = grown.threshold
                  ELSE /\ table' = linked
                       /\ UNCHANGED <<capacity, threshold>>
               /\ shadow' = [shadow EXCEPT ![key] = value]

HandlesMap_remove(key) ==
    LET index == _indexFor(capacity, key)
        chain == table[index]
        p == ChainFind(chain, key, 1)
    IN IF p # 0
       THEN /\ table' = [table EXCEPT ![index] = RemoveFromChain(chain, p)]
            /\ size' = size - 1
            /\ UNCHANGED <<capacity, threshold>>
            /\ shadow' = [shadow EXCEPT ![key] = 0]
       ELSE /\ UNCHANGED <<table, capacity, size, threshold>>
            /\ shadow' = [shadow EXCEPT ![key] = 0]

HandlesMap_clear ==
    /\ table' = EmptyTable(capacity)
    /\ size' = 0
    /\ UNCHANGED <<capacity, threshold>>
    /\ shadow' = [k \in Keys |-> 0]

MapPut == MapFrame /\ \E key \in Keys, value \in Vals : HandlesMap_put(key, value)
MapRemove == MapFrame /\ \E key \in Keys : HandlesMap_remove(key)
MapClear == MapFrame /\ HandlesMap_clear

MapNext == MapPut \/ MapRemove \/ MapClear

(***************************************************************************)
(* The engine side of the PIPE endpoint.  A char * is a string here, the   *)
(* null pointer being NULL; a stamp is the sequence of its characters.     *)
(***************************************************************************)
RVPF_PIPE_STATUS_OK == 0
RVPF_PIPE_STATUS_ERROR == 1
RVPF_PIPE_STATUS_FATAL == 2

NULL == "NULL"
RequestIDs == {"42"}
SeedNames == {"P"}
SeedStamps == {<<"t">>}
PointNames == {"A", "B"}
Stamps == {<<"t">>, <<"d", " ", "t">>}
States == {NULL, "s"}
Values == {NULL, "v"}
\* the state and value given to extra results
ExtraStates == {NULL}
ExtraValues == {"v"}

\* addEngineResult's loop over strchr(stamp, ' '): every space becomes a T
SpacesToT(stamp) == [i \in 1 .. Len(stamp) |-> IF stamp[i] = " " THEN "T" ELSE stamp[i]]

PointValue(pointName, stamp, state, value) ==
    [pointName |-> pointName, stamp |-> stamp, state |-> state, value |-> value]

\* the summary endEngineRequest computes
EngineSummary(req) ==
    IF req.result # <<>>
    THEN IF req.result[1].value # NULL \/ req.count # 0
         THEN 1 + req.count
         ELSE 0
    ELSE IF req.count # 0 THEN req.count ELSE -1

SummaryLine(requestID, summary) ==
    [line |-> "summary", requestID |-> requestID, summary |-> summary]
PointValueLine(pv) == [line |-> "pointValue", pointValue |-> pv]

\* a variant that writes the seed result before the extra results
EngineResultLines_SeedFirst(req, summary) ==
    IF summary > 0
    THEN (IF req.result # <<>> THEN <<PointValueLine(req.result[1])>> ELSE <<>>)
         \o [i \in 1 .. Len(req.results) |-> PointValueLine(req.results[i])]
    ELSE <<>>

\* the PointValue lines endEngineRequest writes after the summary line
EngineResultLines(req, summary) ==
    IF summary > 0
    THEN [i \in 1 .. Len(req.results) |-> PointValueLine(req.results[i])]
         \o (IF req.result # <<>> THEN <<PointValueLine(req.result[1])>> ELSE <<>>)
    ELSE <<>>

\* what clearEngineResults leaves of a request
ClearedRequest(req) ==
    [req EXCEPT !.result = <<>>, !.results = <<>>, !.clearedLast = TRUE]

PipeFrame == UNCHANGED <<mapVars, xpVars, elVars, streamVars, codecVars,
    readerVars, getterVars, storeVars, proxyVars, textVars, encVars>>

PipeInit ==
    /\ rvpf_pipe_status = RVPF_PIPE_STATUS_OK
    /\ pipePc = "idle"
    /\ request = <<>>
    /\ out = <<>>
    /\ ended = <<>>

\* rvpf_pipe_error: status ERROR and the jump to the resumption point, from
\* which the driver returns the status
rvpf_pipe_error ==
    /\ rvpf_pipe_status' = RVPF_PIPE_STATUS_ERROR
    /\ pipePc' = "stopped"
    /\ UNCHANGED <<request, out, ended>>

\* nextEngineRequest on a well-formed frame: the seed comes from the frame's
\* second line, the counts and lists from calloc
rvpf_pipe_nextEngineRequest ==
    /\ pipePc = "idle"
    /\ \E id \in RequestIDs, name \in SeedNames, stamp \in SeedStamps,
          state \in States, value \in Values :
          request' = <<[requestID |-> id,
                        result |-> <<PointValue(name, stamp, state, value)>>,
                        results |-> <<>>,
                        count |-> 0,
                        clearedLast |-> FALSE]>>
    /\ pipePc' = "request"
    /\ out' = <<>>
    /\ ended' = <<>>
    /\ UNCHANGED rvpf_pipe_status
    /\ PipeFrame

\* nextEngineRequest at end of input or on a line "0": _stop
PipeStop ==
    /\ pipePc = "idle"
    /\ rvpf_pipe_status' = RVPF_PIPE_STATUS_OK
    /\ pipePc' = "stopped"
    /\ UNCHANGED <<request, out, ended>>
    /\ PipeFrame

rvpf_pipe_setEngineResultValue ==
    /\ PipeFrame
    /\ pipePc = "request"
    /\ \E value \in Values :
          IF request[1].result = <<>>
          THEN rvpf_pipe_error
          ELSE /\ request' = [request EXCEPT ![1].result[1].value = value]
               /\ UNCHANGED <<rvpf_pipe_status, pipePc, out, ended>>

rvpf_pipe_setEngineResultState ==
    /\ PipeFrame
    /\ pipePc = "request"
    /\ \E state \in States :
          IF request[1].result = <<>>
          THEN rvpf_pipe_error
          ELSE /\ request' = [request EXCEPT ![1].result[1].state = state]
               /\ UNCHANGED <<rvpf_pipe_status, pipePc, out, ended>>

rvpf_pipe_addEngineResult ==
    /\ PipeFrame
    /\ pipePc = "request"
    /\ request[1].count < MaxExtras
    /\ \E name \in PointNames \cup {NULL, ""}, stamp \in Stamps \cup {<<>>},
          state \in ExtraStates, value \in ExtraValues :
          IF name \in {NULL, ""} \/ stamp = <<>>
          THEN rvpf_pipe_error
          ELSE /\ request' = [request EXCEPT
                      ![1].results = Append(@, PointValue(name, SpacesToT(stamp),
                                                          state, value)),
                      ![1].count = @ + 1,
                      ![1].clearedLast = FALSE]
               /\ UNCHANGED <<rvpf_pipe_status, pipePc, out, ended>>

rvpf_pipe_clearEngineResults ==
    /\ PipeFrame
    /\ pipePc = "request"
    /\ request' = <<ClearedRequest(request[1])>>
    /\ UNCHANGED <<rvpf_pipe_status, pipePc, out, ended>>

\* endEngineRequest: the summary line, the result lines, then
\* _freeEngineRequest
rvpf_pipe_endEngineRequest ==
    /\ PipeFrame
    /\ pipePc = "request"
    /\ LET req == request[1]
           summary == EngineSummary(req)
       IN out' = <<SummaryLine(req.requestID, summary)>>
                    \o EngineResultLines(req, summary)
    /\ ended' = request
    /\ request' = <<>>
    /\ pipePc' = "idle"
    /\ UNCHANGED rvpf_pipe_status

PipeNext ==
    \/ rvpf_pipe_nextEngineRequest
    \/ PipeStop
    \/ rvpf_pipe_setEngineResultValue
    \/ rvpf_pipe_setEngineResultState
    \/ rvpf_pipe_addEngineResult
    \/ rvpf_pipe_clearEngineResults
    \/ rvpf_pipe_endEngineRequest

(***************************************************************************)
(* The XPVPC client (lib/impl/rvpf_xpvpc.c) over its byte stream           *)
(* (lib/impl/rvpf_ssl.c, plain-socket build).  The text buffer is kept as  *)
(* the sequence of markup items built so far; what the server and the      *)
(* network do is an input of each operation.                               *)
(***************************************************************************)
RVPF_XPVPC_OK == 0
RVPF_XPVPC_ILLEGAL_STATE == 1
RVPF_XPVPC_ILLEGAL_ARG == 2
RVPF_XPVPC_INTERNAL_ERROR == 3
RVPF_XPVPC_UNEXPECTED_RESPONSE == 4
RVPF_XPVPC_MISMATCHED_ID == 5

RVPF_SSL_OK == 0
RVPF_SSL_ASK_ERR == 1
RVPF_SSL_ILLEGAL_STATE == 2
RVPF_SSL_ILLEGAL_ARG == 3
RVPF_SSL_INTERNAL_ERROR == 4
RVPF_SSL_SERVER_CLOSED == 5
RVPF_SSL_BAD_ADDRESS == 6
RVPF_SSL_UNKNOWN_HOST == 7
RVPF_SSL_UNTRUSTED_HOST == 8

\* char * arguments: a pointer is who owns the string, and what it holds
XpNull == [addr |-> "null", chars |-> ""]
_deletedState == [addr |-> "_deletedState", chars |-> "DELETED"]
XpPoint == [addr |-> "caller", chars |-> "Test1"]
XpStamp == [addr |-> "caller", chars |-> "2006-01-01 01:00"]
XpStates == {XpNull}
\* the arguments of the sendValue calls: a point value, and a call without a
\* point or without a stamp (deletions are not among the calls drawn here)
XpValues ==
    [point : {XpPoint}, stamp : {XpStamp}, state : XpStates]
    \cup {[point |-> XpNull, stamp |-> XpStamp, state |-> XpNull],
          [point |-> XpPoint, stamp |-> XpNull, state |-> XpNull]}
AutoFlushValues == 0 .. MaxAutoFlush

\* the items of the text buffer
MessagesOpen(id) == [tag |-> "messages", id |-> id]
MessagesClose == [tag |-> "/messages", id |-> 0]
Login(id) == [tag |-> "login", id |-> id]
\* a choice of tag that compares the characters, not the pointers
Element_ByChars(state) ==
    [tag |-> IF state.chars = _deletedState.chars THEN "deleted-value"
             ELSE "point-value",
     id |-> 0]

Element(state) ==
    [tag |-> IF state = _deletedState THEN "deleted-value" ELSE "point-value",
     id |-> 0]
\* the leading characters of a rejected response left before the position
Residue == [tag |-> "residue", id |-> 0]

\* what the server answers to one document:
\*   ack      the line <done ref='ref'/>
\*   nomatch  a line whose first character is not '<'
\*   partial  a line that starts as RESPONSE_START does and then differs
\*   badend   RESPONSE_START and digits, not followed by RESPONSE_END
\*   overlong a line, not starting as RESPONSE_START does, that fills the buffer
\*   closed   no byte: the receive fails
\*   cutack   the text of an ack without its line break, then the receive fails
NoLine == [kind |-> "none", ref |-> 0]
Responses ==
    [kind : {"ack", "cutack"}, ref : 1 .. MaxId]
    \cup [kind : {"nomatch", "partial", "badend", "overlong", "closed"},
          ref : {0}]

\* what happens around one transmission: the text outgrows the buffer and
\* the out-of-bounds memset of _addChar ends the process ("crash"), the send
\* fails ("sendfail"), or the document goes out and resp comes back
Quiet == [ub |-> "none", send |-> "ok", resp |-> NoLine]
CrashNow == [ub |-> "crash", send |-> "ok", resp |-> NoLine]
Exchanges ==
    {CrashNow, [ub |-> "none", send |-> "fail", resp |-> NoLine]}
    \cup [ub : {"none"}, send : {"ok"}, resp : Responses]

\* rvpf_xpvpc_create
XpContext0 ==
    [id |-> 0, pending |-> 0, status |-> RVPF_XPVPC_OK, text |-> <<>>,
     open |-> FALSE, sslStatus |-> RVPF_SSL_OK]

\* a stream that counts as open whatever its socket
rvpf_ssl_isOpen_Always(c) == TRUE

rvpf_ssl_isOpen(c) == c.open

rvpf_xpvpc_failed(c) ==
    c.status # RVPF_XPVPC_OK \/ c.sslStatus # RVPF_SSL_OK

rvpf_xpvpc_succeeded(c) ==
    c.status = RVPF_XPVPC_OK /\ c.sslStatus = RVPF_SSL_OK

\* a status that does not look at the stream
rvpf_xpvpc_status_OwnOnly(c) == c.status

rvpf_xpvpc_status(c) ==
    IF c.status # RVPF_XPVPC_OK THEN c.status ELSE 0 - c.sslStatus

\* _addChar, _addText, _addLong, _addEncoded: nothing once the status is set
_addText(c, item) ==
    IF c.status # RVPF_XPVPC_OK THEN c
    ELSE [c EXCEPT !.text = Append(@, item)]

\* the outcome of a call: the context, the value returned, the documents
\* transmitted, the response lines read, the verifications made, and
\* whether the process went down during the call
Ret(c, ret) ==
    [c |-> c, ret |-> ret, sent |-> <<>>, read |-> 0, verifs |-> <<>>,
     crash |-> FALSE]
Crash(c) ==
    [c |-> c, ret |-> 0, sent |-> <<>>, read |-> 0, verifs |-> <<>>,
     crash |-> TRUE]

\* _sendText: the whole text goes out unless the stream fails
_sendText(c, send) ==
    IF rvpf_xpvpc_failed(c) THEN [c |-> c, sent |-> <<>>]
    ELSE IF send = "ok" THEN [c |-> c, sent |-> <<c.text>>]
    ELSE [c |-> [c EXCEPT !.sslStatus = RVPF_SSL_ASK_ERR], sent |-> <<>>]

\* a verification that does not compare the ref with the id sent
LineStatus_AnyRef(resp, expectedId) ==
    CASE resp.kind \in {"ack", "cutack"} -> RVPF_XPVPC_OK
      [] resp.kind = "overlong" -> RVPF_XPVPC_INTERNAL_ERROR
      [] OTHER -> RVPF_XPVPC_UNEXPECTED_RESPONSE

\* the status _receiveLine and _verifyResponse leave for a response
LineStatus(resp, expectedId) ==
    CASE resp.kind \in {"ack", "cutack"} ->
            IF resp.ref = expectedId THEN RVPF_XPVPC_OK
            ELSE RVPF_XPVPC_MISMATCHED_ID
      [] resp.kind = "overlong" -> RVPF_XPVPC_INTERNAL_ERROR
      [] OTHER -> RVPF_XPVPC_UNEXPECTED_RESPONSE

\* _verifyResponse (with _receiveLine, _match, _resetText)
_verifyResponse(c, expectedId, resp, transmitted) ==
    IF c.status # RVPF_XPVPC_OK
    THEN [c |-> c, read |-> 0, verifs |-> <<>>]
    ELSE IF c.sslStatus # RVPF_SSL_OK
    THEN \* rvpf_ssl_receive returns 0 at once; _match finds nothing
         [c |-> [c EXCEPT !.status = RVPF_XPVPC_UNEXPECTED_RESPONSE,
                          !.text = <<>>],
          read |-> 0,
          verifs |-> <<[expected |-> expectedId, line |-> NoLine,
                        transmitted |-> transmitted, read |-> 0,
                        after |-> RVPF_XPVPC_UNEXPECTED_RESPONSE]>>]
    ELSE LET after == LineStatus(resp, expectedId)
             read == IF resp.kind \in {"closed", "cutack"} THEN 0 ELSE 1
         IN [c |-> [c EXCEPT
                      !.status = after,
                      !.sslStatus = IF resp.kind \in {"closed", "cutack"}
                                    THEN RVPF_SSL_SERVER_CLOSED ELSE @,
                      !.text = IF resp.kind \in {"partial", "badend"}
                               THEN <<Residue>> ELSE <<>>],
             read |-> read,
             verifs |-> <<[expected |-> expectedId, line |-> resp,
                           transmitted |-> transmitted, read |-> read,
                           after |-> after]>>]

\* a refusal that also forgets the elements that are pending
IllegalState_Forgetful(c) ==
    Ret([c EXCEPT !.status = RVPF_XPVPC_ILLEGAL_STATE, !.pending = 0],
        RVPF_XPVPC_ILLEGAL_STATE)

\* if (!rvpf_xpvpc_isOpen(context)): the status is set and returned
IllegalState(c) ==
    Ret([c EXCEPT !.status = RVPF_XPVPC_ILLEGAL_STATE],
        RVPF_XPVPC_ILLEGAL_STATE)

\* a flush that transmits whether or not an element is pending
FlushDue_Always(c) == TRUE

\* rvpf_xpvpc_flush: if (context->pending)
FlushDue(c) == c.pending # 0

rvpf_xpvpc_flush(c, io) ==
    IF rvpf_xpvpc_failed(c) THEN Ret(c, rvpf_xpvpc_status(c))
    ELSE IF ~rvpf_ssl_isOpen(c) THEN IllegalState(c)
    ELSE IF FlushDue(c)
    THEN IF io.ub = "crash" THEN Crash(c)
         ELSE LET t == _addText(c, MessagesClose)
                  s == _sendText(t, io.send)
                  v == _verifyResponse(s.c, s.c.id, io.resp, s.sent # <<>>)
                  d == [v.c EXCEPT !.pending = 0]
              IN [c |-> d, ret |-> d.status, sent |-> s.sent,
                  read |-> v.read, verifs |-> v.verifs, crash |-> FALSE]
    ELSE Ret(c, c.status)

\* a counter that advances by two
NextId_Skip(c) == c.id + 2

\* ++context->id
NextId(c) == c.id + 1

rvpf_xpvpc_login(c, io1, io2) ==
    IF rvpf_xpvpc_failed(c) THEN Ret(c, rvpf_xpvpc_status(c))
    ELSE IF ~rvpf_ssl_isOpen(c) THEN IllegalState(c)
    ELSE LET f == rvpf_xpvpc_flush(c, io1)
         IN IF f.crash THEN f
            ELSE IF f.c.status = RVPF_XPVPC_OK /\ io2.ub = "crash"
            THEN [f EXCEPT !.crash = TRUE]
            ELSE LET t == [_addText(f.c, Login(NextId(f.c)))
                             EXCEPT !.id = NextId(f.c)]
                     s == _sendText(t, io2.send)
                     v == _verifyResponse(s.c, s.c.id, io2.resp,
                                          s.sent # <<>>)
                 IN [c |-> v.c, ret |-> v.c.status,
                     sent |-> f.sent \o s.sent,
                     read |-> f.read + v.read,
                     verifs |-> f.verifs \o v.verifs, crash |-> FALSE]

rvpf_ssl_open(c, outcome) ==
    CASE outcome = "ok" ->
            [c EXCEPT !.sslStatus = RVPF_SSL_OK, !.open = TRUE]
      [] outcome = "bad_address" ->
            [c EXCEPT !.sslStatus = RVPF_SSL_BAD_ADDRESS]
      [] OTHER -> [c EXCEPT !.sslStatus = RVPF_SSL_ASK_ERR]

rvpf_xpvpc_open(c, outcome) ==
    IF rvpf_ssl_isOpen(c)
    THEN Ret([c EXCEPT !.status = RVPF_XPVPC_ILLEGAL_STATE],
             RVPF_XPVPC_ILLEGAL_STATE)
    ELSE LET d == rvpf_ssl_open([c EXCEPT !.status = RVPF_XPVPC_OK], outcome)
         IN Ret(d, d.sslStatus)

\* a threshold that must be passed, not reached
AutoFlushDue_Late(autoFlush, pending) == autoFlush > 0 /\ pending > autoFlush

\* rvpf_xpvpc_sendValue: if (_autoFlush > 0 && context->pending >= _autoFlush)
AutoFlushDue(autoFlush, pending) == autoFlush > 0 /\ pending >= autoFlush

rvpf_xpvpc_sendValue(c, autoFlush, point, stamp, state, io) ==
    IF rvpf_xpvpc_failed(c) THEN Ret(c, rvpf_xpvpc_status(c))
    ELSE IF ~rvpf_ssl_isOpen(c) THEN IllegalState(c)
    ELSE IF point = XpNull \/ stamp = XpNull
    THEN Ret([c EXCEPT !.status = RVPF_XPVPC_ILLEGAL_ARG],
             RVPF_XPVPC_ILLEGAL_ARG)
    ELSE IF io.ub = "crash" THEN Crash(c)
    ELSE LET h == IF c.pending = 0
                  THEN [_addText(c, MessagesOpen(NextId(c)))
                          EXCEPT !.id = NextId(c)]
                  ELSE c
             p == [_addText(h, Element(state)) EXCEPT !.pending = @ + 1]
         IN IF AutoFlushDue(autoFlush, p.pending)
            THEN LET f == rvpf_xpvpc_flush(p, io)
                 IN [f EXCEPT !.ret = f.c.status]
            ELSE Ret(p, p.status)

\* rvpf_xpvpc_setAutoFlush: the flush it makes first; the caller sets _autoFlush
rvpf_xpvpc_setAutoFlush(c, io) ==
    IF rvpf_ssl_isOpen(c) THEN rvpf_xpvpc_flush(c, io) ELSE Ret(c, 0)

\* a clearError that resets the status of the context and nothing else
rvpf_xpvpc_clearError_StatusOnly(c) ==
    [c EXCEPT !.status = RVPF_XPVPC_OK]

rvpf_xpvpc_clearError(c) ==
    [c EXCEPT !.text = <<>>, !.pending = 0, !.status = RVPF_XPVPC_OK,
              !.sslStatus = RVPF_SSL_OK]

rvpf_ssl_close(c, closing) ==
    IF c.open
    THEN [c EXCEPT !.open = FALSE,
                   !.sslStatus = IF closing = "fail" THEN RVPF_SSL_ASK_ERR
                                 ELSE @]
    ELSE c

\* a close that closes the stream first and flushes afterwards
rvpf_xpvpc_close_StreamFirst(c, io, closing) ==
    IF ~rvpf_ssl_isOpen(c)
    THEN LET d == rvpf_xpvpc_clearError(c) IN Ret(d, d.status)
    ELSE LET d == rvpf_ssl_close(c, closing)
             f == IF rvpf_xpvpc_succeeded(d) THEN rvpf_xpvpc_flush(d, io)
                  ELSE Ret([d EXCEPT !.status = RVPF_XPVPC_OK], 0)
         IN [f EXCEPT !.ret = d.sslStatus]

rvpf_xpvpc_close(c, io, closing) ==
    IF ~rvpf_ssl_isOpen(c)
    THEN LET d == rvpf_xpvpc_clearError(c) IN Ret(d, d.status)
    ELSE LET f == IF rvpf_xpvpc_succeeded(c) THEN rvpf_xpvpc_flush(c, io)
                  ELSE Ret([c EXCEPT !.status = RVPF_XPVPC_OK], 0)
         IN IF f.crash THEN f
            ELSE LET d == rvpf_ssl_close(f.c, closing)
                 IN [f EXCEPT !.c = d, !.ret = d.sslStatus]

XpFrame == UNCHANGED <<mapVars, pipeVars, elVars, streamVars, codecVars,
    readerVars, getterVars, storeVars, proxyVars, textVars, encVars>>

XpHistory0 == [name |-> "create", ret |-> 0, read |-> 0, verifs |-> <<>>]

\* what is remembered of the calls made on the context: no call has failed;
\* a login has succeeded on this connection; pending elements were dropped;
\* the context has been failed and clearError has not run since; the number
\* of sendValue calls that returned OK; the last call was a close on a
\* context whose stream was not open
XpGhost0 ==
    [nofail |-> TRUE, loggedIn |-> FALSE, discarded |-> FALSE,
     latched |-> FALSE, accepted |-> 0, reclosed |-> FALSE]

XpInit ==
    /\ ctx = XpContext0
    /\ _autoFlush = 0
    /\ xpPc = "live"
    /\ wire = <<>>
    /\ lastOp = XpHistory0
    /\ ghost = XpGhost0

\* the exchanges a call can meet: only a call that flushes meets one
ExchangesIf(flushes) == IF flushes THEN Exchanges ELSE {Quiet}

\* records a call that has returned r (or during which the process went down)
XpReturn(name, r) ==
    /\ r.c.id <= MaxId
    /\ r.c.pending <= MaxPending
    /\ ctx' = IF r.crash THEN ctx ELSE r.c
    /\ wire' = wire \o r.sent
    /\ xpPc' = IF r.crash THEN "crashed"
               ELSE IF name = "dispose" THEN "disposed" ELSE "live"
    /\ lastOp' = [name |-> IF r.crash THEN "crash" ELSE name,
                  ret |-> r.ret, read |-> r.read, verifs |-> r.verifs]
    /\ ghost' =
         [nofail |-> /\ ghost.nofail
                     /\ ~r.crash
                     /\ r.ret = 0
                     /\ ~rvpf_xpvpc_failed(r.c),
          loggedIn |->
             IF name = "login"
             THEN ghost.loggedIn
                  \/ (~r.crash /\ r.ret = RVPF_XPVPC_OK)
             ELSE IF name \in {"close", "dispose"}
                     \/ (name = "open" /\ ~ctx.open)
             THEN FALSE
             ELSE ghost.loggedIn,
          discarded |->
             \/ ghost.discarded
             \/ (name = "clearError" /\ ctx.pending > 0)
             \/ (name \in {"close", "dispose"} /\ ~ctx.open
                 /\ ctx.pending > 0),
          latched |->
             IF r.crash THEN ghost.latched
             ELSE IF name = "clearError"
                     \/ (name \in {"close", "dispose"} /\ ~ctx.open)
             THEN FALSE
             ELSE ghost.latched \/ rvpf_xpvpc_failed(r.c),
          accepted |->
             IF name = "sendValue" /\ ~r.crash /\ r.ret = RVPF_XPVPC_OK
             THEN ghost.accepted + 1
             ELSE ghost.accepted,
          reclosed |-> name = "close" /\ ~r.crash /\ ~ctx.open]
    /\ XpFrame

XpOpen ==
    /\ xpPc = "live"
    /\ \E outcome \in {"ok", "bad_address", "unreachable"} :
          XpReturn("open", rvpf_xpvpc_open(ctx, outcome))
    /\ UNCHANGED _autoFlush

XpLogin ==
    /\ xpPc = "live"
    /\ \E io1 \in ExchangesIf(ctx.pending # 0) :
          \* the second exchange takes place only if the first leaves status OK
          \E io2 \in ExchangesIf(LET f == rvpf_xpvpc_flush(ctx, io1)
                                  IN ~f.crash /\ f.c.status = RVPF_XPVPC_OK) :
             XpReturn("login", rvpf_xpvpc_login(ctx, io1, io2))
    /\ UNCHANGED _autoFlush

XpSendValue ==
    /\ xpPc = "live"
    /\ \E pv \in XpValues,
          io \in {CrashNow}
                 \cup ExchangesIf(AutoFlushDue(_autoFlush, ctx.pending + 1)) :
          XpReturn("sendValue",
                   rvpf_xpvpc_sendValue(ctx, _autoFlush, pv.point, pv.stamp,
                                        pv.state, io))
    /\ UNCHANGED _autoFlush

XpFlush ==
    /\ xpPc = "live"
    /\ \E io \in ExchangesIf(ctx.pending # 0) :
          XpReturn("flush", rvpf_xpvpc_flush(ctx, io))
    /\ UNCHANGED _autoFlush

XpSetAutoFlush ==
    /\ xpPc = "live"
    /\ \E autoFlush \in AutoFlushValues, io \in ExchangesIf(ctx.pending # 0) :
          LET r == rvpf_xpvpc_setAutoFlush(ctx, io)
          IN /\ XpReturn("setAutoFlush", r)
             /\ _autoFlush' = IF r.crash THEN _autoFlush ELSE autoFlush

XpClearError ==
    /\ xpPc = "live"
    /\ XpReturn("clearError", Ret(rvpf_xpvpc_clearError(ctx), 0))
    /\ UNCHANGED _autoFlush

XpClose ==
    /\ xpPc = "live"
    /\ \E io \in ExchangesIf(ctx.pending # 0), closing \in {"ok", "fail"} :
          XpReturn("close", rvpf_xpvpc_close(ctx, io, closing))
    /\ UNCHANGED _autoFlush

\* rvpf_xpvpc_dispose: closes, then frees the context
XpDispose ==
    /\ xpPc = "live"
    /\ \E io \in ExchangesIf(ctx.pending # 0), closing \in {"ok", "fail"} :
          XpReturn("dispose", rvpf_xpvpc_close(ctx, io, closing))
    /\ UNCHANGED _autoFlush

\* rvpf_xpvpc_create after a dispose: a new context in the same process
XpCreate ==
    /\ xpPc = "disposed"
    /\ ctx' = XpContext0
    /\ xpPc' = "live"
    /\ wire' = <<>>
    /\ lastOp' = XpHistory0
    /\ ghost' = XpGhost0
    /\ UNCHANGED _autoFlush
    /\ XpFrame

XpNext ==
    \/ XpOpen
    \/ XpLogin
    \/ XpSendValue
    \/ XpFlush
    \/ XpSetAutoFlush
    \/ XpClearError
    \/ XpClose
    \/ XpDispose
    \/ XpCreate

(***************************************************************************)
(* The element rvpf_xpvpc_sendValue adds for one value                     *)
(* (rvpf_xpvpc.c:332-383): its tag, and the arguments encoded into its     *)
(* children, in order.                                                     *)
(***************************************************************************)
\* strings of the caller; whether a caller's literal "DELETED" shares its
\* storage with the library's is up to the build, and a literal that does is
\* the sentinel itself
ElPoints == {XpPoint, [addr |-> "caller", chars |-> "Test2"]}
ElStamps == {XpStamp, [addr |-> "caller", chars |-> "2006-01-01 02:00"]}
ElStates ==
    {XpNull, _deletedState,
     [addr |-> "caller", chars |-> "DELETED"],
     [addr |-> "caller", chars |-> "bad"]}
ElValues ==
    {XpNull} \cup [addr : {"caller"}, chars : {"", "7.5", " 7.5"}]

NoElement == [tag |-> "none", children |-> <<>>]

Child(tag, arg) == [tag |-> tag, arg |-> arg]

ValueElement(point, stamp, state, value) ==
    [tag |-> Element(state).tag,
     children |->
        <<Child("point", point), Child("stamp", stamp)>>
        \o (IF state # _deletedState
            THEN (IF state # XpNull THEN <<Child("state", state)>> ELSE <<>>)
                 \o (IF value # XpNull THEN <<Child("value", value)>>
                     ELSE <<>>)
            ELSE <<>>)]

ElFrame == UNCHANGED <<mapVars, pipeVars, xpVars, streamVars, codecVars,
    readerVars, getterVars, storeVars, proxyVars, textVars, encVars>>

ElInit ==
    /\ elArgs \in [point : ElPoints, stamp : ElStamps, state : ElStates,
                   value : ElValues]
    /\ elText = NoElement

ElIdle ==
    /\ elArgs = [point |-> XpPoint, stamp |-> XpStamp, state |-> XpNull,
                 value |-> XpNull]
    /\ elText = NoElement

\* the part of sendValue that adds the element, on an open context
ElSendValue ==
    /\ elText = NoElement
    /\ elText' = ValueElement(elArgs.point, elArgs.stamp, elArgs.state,
                              elArgs.value)
    /\ UNCHANGED elArgs
    /\ ElFrame

ElNext == ElSendValue

(***************************************************************************)
(* The stream (lib/impl/rvpf_ssl.c) used on its own, in both builds: with  *)
(* SSL_ENABLED ("ssl") and over a plain socket ("plain").  The context     *)
(* holds whether the connection exists (bio, or socket >= 0), the status,  *)
(* whether an SSL_CTX exists, and whether trust and certificate files are  *)
(* set.  What the network and the library answer is an input of each call. *)
(***************************************************************************)
Builds == {"ssl", "plain"}

\* rvpf_ssl_create
Stream0(build) ==
    [build |-> build, open |-> FALSE, status |-> RVPF_SSL_OK, ctx |-> FALSE,
     trust |-> FALSE, certificate |-> FALSE, host |-> <<"NULL">>, port |-> 0]

\* the outcome of a call: the context, the value returned, the network calls
StreamRet(s, ret, io) == [s |-> s, ret |-> ret, io |-> io]

\* a test that never finds the stream failed
Stream_failed_Never(s) == FALSE

\* rvpf_ssl_failed
Stream_failed(s) == s.status # RVPF_SSL_OK

\* rvpf_ssl_succeeded
Stream_succeeded(s) == s.status = RVPF_SSL_OK

\* rvpf_ssl_close: the connection is released; only close(2) can fail
Stream_close(s, closing) ==
    IF ~s.open THEN StreamRet(s, s.status, 0)
    ELSE LET d == [s EXCEPT !.open = FALSE,
                            !.status = IF s.build = "plain" /\ closing = "fail"
                                       THEN RVPF_SSL_ASK_ERR ELSE @]
         IN StreamRet(d, d.status, 1)

\* the status a connection attempt leaves, by build
ConnectStatus(s, net) ==
    CASE net = "ok" -> RVPF_SSL_OK
      [] net = "unknown_host" ->
            IF s.build = "plain" THEN RVPF_SSL_UNKNOWN_HOST
            ELSE RVPF_SSL_ASK_ERR
      [] net = "untrusted" ->
            IF s.build = "ssl" /\ s.ctx /\ s.trust
            THEN RVPF_SSL_UNTRUSTED_HOST ELSE RVPF_SSL_OK
      [] OTHER -> RVPF_SSL_ASK_ERR

Range(s) == {s[i] : i \in DOMAIN s}
RECURSIVE StringsUpTo(_, _)
StringsUpTo(chars, n) ==
    IF n = 0 THEN {<<>>}
    ELSE LET shorter == StringsUpTo(chars, n - 1)
         IN shorter \cup {Append(t, c) : t \in shorter, c \in chars}

\* the element of a set of one element: names the result of a step
The(S) == CHOOSE x \in S : TRUE

\* isspace, for the characters of the model
IsSpace(c) == c \in {" ", "\t"}

RECURSIVE DropLeadingSpace(_)
DropLeadingSpace(chars) ==
    IF chars # <<>> /\ IsSpace(chars[1]) THEN DropLeadingSpace(Tail(chars))
    ELSE chars

DigitChars == <<"0", "1", "2", "3", "4", "5", "6", "7", "8", "9">>
DigitValue(c) == CHOOSE d \in 0 .. 9 : DigitChars[d + 1] = c

RECURSIVE Decimal(_, _)
Decimal(digits, acc) ==
    IF digits = <<>> THEN acc
    ELSE Decimal(Tail(digits), 10 * acc + DigitValue(digits[1]))

\* strtoul(string, &end, 10), converted to int: white space, an optional
\* sign and the digits; without a digit nothing is consumed.  The addresses
\* of the model are too short for the value to leave the int range.
_strtoul(string) ==
    LET unspaced == DropLeadingSpace(string)
        signed == unspaced # <<>> /\ unspaced[1] \in {"+", "-"}
        body == IF signed THEN Tail(unspaced) ELSE unspaced
        digits == CHOOSE n \in 0 .. Len(body) :
                     /\ \A i \in 1 .. n : body[i] \in Range(DigitChars)
                     /\ n < Len(body) =>
                            body[n + 1] \notin Range(DigitChars)
        number == Decimal(SubSeq(body, 1, digits), 0)
    IN  IF digits = 0 THEN [value |-> 0, end |-> string]
        ELSE [value |-> IF signed /\ unspaced[1] = "-"
                        THEN 0 - number ELSE number,
              end |-> SubSeq(body, digits + 1, Len(body))]

\* strrchr(address, ':'): the place of the last colon, 0 without one
LastColon(address) ==
    IF address = <<"NULL">> \/ \A i \in 1 .. Len(address) : address[i] # ":"
    THEN 0
    ELSE CHOOSE i \in 1 .. Len(address) :
            /\ address[i] = ":"
            /\ \A j \in i + 1 .. Len(address) : address[j] # ":"

\* the first part of rvpf_ssl_open: the host and the port of the address
ParseAddress(address) ==
    LET pointer == LastColon(address)
        port == _strtoul(SubSeq(address, pointer + 1, Len(address)))
    IN  IF pointer = 0
        THEN [status |-> RVPF_SSL_BAD_ADDRESS, host |-> <<"NULL">>,
              port |-> 0]
        ELSE [status |-> IF port.end # <<>> \/ port.value = 0
                         THEN RVPF_SSL_BAD_ADDRESS ELSE RVPF_SSL_OK,
              host |-> IF pointer > 1 THEN SubSeq(address, 1, pointer - 1)
                       ELSE <<"1", "2", "7", ".", "0", ".", "0", ".", "1">>,
              port |-> port.value]

\* rvpf_ssl_open
Stream_open(s, address, net) ==
    IF s.open
    THEN StreamRet([s EXCEPT !.status = RVPF_SSL_ILLEGAL_STATE],
                   RVPF_SSL_ILLEGAL_STATE, 0)
    ELSE LET parsed == The({ParseAddress(a) : a \in {address}})
         IN  IF parsed.status # RVPF_SSL_OK
             THEN StreamRet([s EXCEPT !.status = RVPF_SSL_BAD_ADDRESS,
                                      !.port = IF LastColon(address) = 0
                                               THEN @ ELSE parsed.port],
                            RVPF_SSL_BAD_ADDRESS, 0)
             ELSE LET after == ConnectStatus(s, net)
                  IN StreamRet([s EXCEPT !.status = after,
                                         !.open = (after = RVPF_SSL_OK),
                                         !.host = parsed.host,
                                         !.port = parsed.port],
                               after, 1)

\* the status a transfer of count bytes leaves
TransferStatus(s, count, closedAtZero) ==
    IF count < 0
    THEN IF count = -1 THEN RVPF_SSL_ASK_ERR ELSE RVPF_SSL_INTERNAL_ERROR
    ELSE IF count = 0
    THEN IF closedAtZero THEN RVPF_SSL_SERVER_CLOSED
         ELSE RVPF_SSL_INTERNAL_ERROR
    ELSE s.status

\* rvpf_ssl_receive
Stream_receive(s, buffer, count) ==
    IF Stream_failed(s) THEN StreamRet(s, 0, 0)
    ELSE IF buffer = "null"
    THEN StreamRet([s EXCEPT !.status = RVPF_SSL_ILLEGAL_ARG], 0, 0)
    ELSE StreamRet([s EXCEPT !.status = TransferStatus(s, count, TRUE)],
                   count, 1)

\* rvpf_ssl_send
Stream_send(s, buffer, count) ==
    IF Stream_failed(s) THEN StreamRet(s, 0, 0)
    ELSE IF buffer = "null"
    THEN StreamRet([s EXCEPT !.status = RVPF_SSL_ILLEGAL_ARG], 0, 0)
    ELSE StreamRet([s EXCEPT !.status = TransferStatus(s, count, FALSE)],
                   count, 1)

\* _initCTX: creates the SSL_CTX once; nothing in the plain build
_initCTX(s, created) ==
    IF s.build = "plain" \/ s.ctx THEN s
    ELSE IF created THEN [s EXCEPT !.ctx = TRUE]
    ELSE [s EXCEPT !.status = RVPF_SSL_ASK_ERR]

\* rvpf_ssl_setCertificate
Stream_setCertificate(s, filePath, created) ==
    IF Stream_succeeded(s)
    THEN LET d == _initCTX(s, created)
         IN StreamRet(IF s.build = "ssl"
                      THEN [d EXCEPT !.certificate = (filePath # "null")]
                      ELSE d,
                      0, 0)
    ELSE StreamRet(s, 0, 0)

\* rvpf_ssl_setTrust
Stream_setTrust(s, filePath, created) ==
    IF Stream_succeeded(s)
    THEN LET d == _initCTX(s, created)
         IN StreamRet(IF s.build = "ssl"
                      THEN [d EXCEPT !.trust = (filePath # "null")]
                      ELSE d,
                      0, 0)
    ELSE StreamRet(s, 0, 0)

\* rvpf_ssl_clearError
Stream_clearError(s) == [s EXCEPT !.status = RVPF_SSL_OK]

StreamFrame == UNCHANGED <<mapVars, pipeVars, xpVars, elVars, codecVars,
    readerVars, getterVars, storeVars, proxyVars, textVars, encVars>>

StreamLast0 == [name |-> "create", ret |-> 0, io |-> 0]

StreamInit ==
    /\ stream \in {Stream0(b) : b \in Builds}
    /\ streamLast = StreamLast0
    /\ streamArg = <<"NULL">>

StreamIdle ==
    /\ stream = Stream0("plain")
    /\ streamLast = StreamLast0
    /\ streamArg = <<"NULL">>

StreamReturn(name, r) ==
    /\ stream' = r.s
    /\ streamArg' = <<"NULL">>
    /\ streamLast' = [name |-> name, ret |-> r.ret, io |-> r.io]
    /\ StreamFrame

\* the byte counts send(2), recv(2) and the BIO calls can answer; a stream
\* without a connection transfers nothing
Counts(s) == IF s.open THEN {-2, -1, 0, MaxBytes} ELSE {-2, -1, 0}

\* the characters and the addresses handed to rvpf_ssl_open
Addresses ==
    {<<"NULL">>, <<>>, <<"8">>, <<"h">>, <<"h", "8">>, <<":">>, <<"h", ":">>,
     <<":", "0">>, <<":", "0", "0">>, <<":", "8">>, <<":", "8", "0">>,
     <<":", "0", "8">>, <<"h", ":", "8">>, <<"h", ":", "8", "0">>,
     <<":", "-", "8">>, <<":", "+", "8">>, <<":", " ", "8">>, <<":", "h">>,
     <<":", "8", "h">>, <<":", "8", " ">>, <<":", ":", "8">>,
     <<"h", ":", "8", ":">>, <<":", "-", "0">>}

\* what the network can answer to an address; an address that is refused
\* never reaches it
Answers(address) ==
    IF ParseAddress(address).status # RVPF_SSL_OK THEN {"ok"}
    ELSE {"ok", "unknown_host", "refused", "untrusted"}

StreamOpen ==
    \E address \in Addresses :
       \E net \in Answers(address) :
          \E r \in {Stream_open(stream, address, net)} :
             /\ stream' = r.s
             /\ streamLast' = [name |-> "open", ret |-> r.ret, io |-> r.io]
             /\ streamArg' = address
             /\ StreamFrame

StreamSend ==
    \E buffer \in {"null", "text"}, count \in Counts(stream) :
       StreamReturn("send", Stream_send(stream, buffer, count))

StreamReceive ==
    \E buffer \in {"null", "text"}, count \in Counts(stream) :
       StreamReturn("receive", Stream_receive(stream, buffer, count))

StreamSetTrust ==
    \E filePath \in {"null", "path"}, created \in BOOLEAN :
       StreamReturn("setTrust", Stream_setTrust(stream, filePath, created))

StreamSetCertificate ==
    \E filePath \in {"null", "path"}, created \in BOOLEAN :
       StreamReturn("setCertificate",
                    Stream_setCertificate(stream, filePath, created))

StreamClearError ==
    StreamReturn("clearError", StreamRet(Stream_clearError(stream), 0, 0))

StreamClose ==
    \E closing \in {"ok", "fail"} :
       StreamReturn("close", Stream_close(stream, closing))

StreamNext ==
    \/ StreamOpen
    \/ StreamSend
    \/ StreamReceive
    \/ StreamSetTrust
    \/ StreamSetCertificate
    \/ StreamClearError
    \/ StreamClose

(***************************************************************************)
(* PointValue lines of the PIPE protocol (lib/impl/rvpf_pipe.c), character *)
(* by character: _pointValueToBuffer writes them, _nextLine reads them and *)
(* _fillPointValue, with _nextField, takes them apart.  A string is the    *)
(* sequence of its characters; a NULL pointer is Absent.                   *)
(***************************************************************************)
Absent == <<"NULL">>
NUL == "NUL"
\* the pointer _fillPointValue stores for a deleted value (rvpf_pipe.c:94)
PipeDeleted == <<"_deletedState">>
CharsOf(str) ==
    IF str = PipeDeleted THEN <<"D", "E", "L", "E", "T", "E", "D">> ELSE str

RECURSIVE Flatten(_)
Flatten(ss) == IF ss = <<>> THEN <<>> ELSE ss[1] \o Flatten(Tail(ss))

\* a state character written twice when it is a bracket
StateChar_Doubled(c) ==
    IF c \in {"[", "]"} THEN <<c, c>> ELSE <<c>>

\* _pointValueToBuffer: what is written for one character of the state
StateChar(c) ==
    IF c = "[" THEN <<"]", "[">>
    ELSE IF c = "]" THEN <<"[", "]">>
    ELSE <<c>>

\* a value character written as it is, quotes included
ValueChar_Plain(c) == <<c>>

\* _pointValueToBuffer: what is written for one character of the value
ValueChar(c) == IF c = "\"" THEN <<"\"", "\"">> ELSE <<c>>

StatePart(state) ==
    IF state = Absent THEN <<>>
    ELSE <<" ", "[">>
         \o Flatten([i \in 1 .. Len(CharsOf(state)) |->
                        StateChar(CharsOf(state)[i])])
         \o <<"]">>

ValuePart(value) ==
    IF value = Absent THEN <<>>
    ELSE <<" ", "\"">>
         \o Flatten([i \in 1 .. Len(value) |-> ValueChar(value[i])])
         \o <<"\"">>

_pointValueToBuffer(pv) ==
    pv.pointName \o <<" ">> \o pv.stamp
    \o StatePart(pv.state) \o ValuePart(pv.value)

RECURSIVE DropTrailingSpace(_)
DropTrailingSpace(chars) ==
    IF chars # <<>> /\ IsSpace(chars[Len(chars)])
    THEN DropTrailingSpace(SubSeq(chars, 1, Len(chars) - 1))
    ELSE chars

\* _nextLine, for one line of the input: white space is not stored at the
\* start of the line and is dropped from its end; <<>> is a line skipped
TrimLine(chars) == DropTrailingSpace(DropLeadingSpace(chars))

\* struct rvpf_pipe_buffer holding a line: at[limit] is the final nul;
\* the character at C index i is at[i + 1]
Buffer(line) ==
    [at |-> line \o <<NUL>>, position |-> 0, mark |-> 0, limit |-> Len(line)]

\* strspn and strcspn from C index i
RECURSIVE Span(_, _, _)
Span(at, i, chars) ==
    IF i + 1 <= Len(at) /\ at[i + 1] \in chars
    THEN 1 + Span(at, i + 1, chars) ELSE 0

RECURSIVE SpanNot(_, _, _)
SpanNot(at, i, chars) ==
    IF i + 1 <= Len(at) /\ at[i + 1] \notin chars
    THEN 1 + SpanNot(at, i + 1, chars) ELSE 0

\* the C string that starts at C index i
CString(at, i) == SubSeq(at, i + 1, i + SpanNot(at, i, {NUL}))

\* _nextField: the buffer after the call, the field returned, and whether
\* rvpf_pipe_error was called
_nextField(b, required, last) ==
    IF b.position >= b.limit
    THEN [b |-> [b EXCEPT !.mark = b.position], field |-> Absent,
          error |-> required]
    ELSE LET p0 == IF b.at[b.position + 1] = NUL THEN b.position + 1
                   ELSE b.position
             p1 == p0 + Span(b.at, p0, {" "})
             p2 == IF last THEN p1 ELSE p1 + SpanNot(b.at, p1, {" ", NUL})
             at2 == IF ~last /\ p2 < b.limit
                    THEN [b.at EXCEPT ![p2 + 1] = NUL] ELSE b.at
         IN [b |-> [at |-> at2, position |-> p2, mark |-> p1,
                    limit |-> b.limit],
             field |-> CString(at2, p1), error |-> FALSE]

\* _fillPointValue: the loop over a field that starts with '['; i is the
\* index of *next, acc what has been stored up to stop
RECURSIVE StateScan(_, _, _, _, _)
StateScan(f, i, acc, leftBracketSeen, rightBracketSeen) ==
    IF i > Len(f)
    THEN IF ~rightBracketSeen
         THEN [valid |-> FALSE, state |-> Absent, rest |-> Absent]
         ELSE [valid |-> TRUE, state |-> acc, rest |-> <<>>]
    ELSE IF rightBracketSeen
    THEN IF f[i] = "["
         THEN StateScan(f, i + 1, Append(acc, "["), leftBracketSeen, FALSE)
         ELSE [valid |-> TRUE, state |-> acc,
               rest |-> LET after == SubSeq(f, i + 1, Len(f))
                        IN SubSeq(after, Span(after, 0, {" "}) + 1,
                                  Len(after))]
    ELSE IF leftBracketSeen
    THEN IF f[i] = "]"
         THEN StateScan(f, i + 1, Append(acc, "]"), FALSE, rightBracketSeen)
         ELSE [valid |-> FALSE, state |-> Absent, rest |-> Absent]
    ELSE IF f[i] = "[" THEN StateScan(f, i + 1, acc, TRUE, FALSE)
    ELSE IF f[i] = "]" THEN StateScan(f, i + 1, acc, FALSE, TRUE)
    ELSE StateScan(f, i + 1, Append(acc, f[i]), FALSE, FALSE)

\* _fillPointValue: the loop over a field that starts with '"'
RECURSIVE ValueScan(_, _, _, _)
ValueScan(f, i, acc, quoteSeen) ==
    IF i > Len(f)
    THEN IF ~quoteSeen THEN [valid |-> FALSE, value |-> Absent]
         ELSE [valid |-> TRUE, value |-> acc]
    ELSE IF quoteSeen
    THEN IF f[i] = "\""
         THEN ValueScan(f, i + 1, Append(acc, "\""), FALSE)
         ELSE [valid |-> FALSE, value |-> Absent]
    ELSE IF f[i] = "\"" THEN ValueScan(f, i + 1, acc, TRUE)
    ELSE ValueScan(f, i + 1, Append(acc, f[i]), FALSE)

Parsed(status, pointName, stamp, state, value) ==
    [status |-> status, pointName |-> pointName, stamp |-> stamp,
     state |-> state, value |-> value]

\* rvpf_pipe_error was called: the request is abandoned
ParseError == Parsed("error", Absent, Absent, Absent, Absent)

StartsWith(field, c) == field # Absent /\ field # <<>> /\ field[1] = c

_fillPointValue(b, stampRequired) ==
    LET f1 == _nextField(b, TRUE, FALSE)
        f2 == _nextField(f1.b, stampRequired, FALSE)
        f3 == IF f2.field # Absent THEN _nextField(f2.b, FALSE, TRUE) ELSE f2
        st == IF StartsWith(f3.field, "[")
              THEN StateScan(f3.field, 2, <<>>, FALSE, FALSE)
              ELSE [valid |-> TRUE, state |-> Absent, rest |-> f3.field]
        va == IF st.valid /\ StartsWith(st.rest, "\"")
              THEN ValueScan(st.rest, 2, <<>>, FALSE)
              ELSE [valid |-> FALSE, value |-> Absent]
    IN IF f1.error \/ f2.error THEN ParseError
       ELSE Parsed("ok", f1.field, f2.field,
                   IF st.valid /\ StartsWith(st.rest, "-") THEN PipeDeleted
                   ELSE st.state,
                   va.value)

\* a variant of isValueDeleted that compares the text of the state
rvpf_pipe_isValueDeleted_ByText(pv) == CharsOf(pv.state) = CharsOf(PipeDeleted)

\* rvpf_pipe_isValueDeleted: the state is the pointer _deletedState
rvpf_pipe_isValueDeleted(pv) == pv.state = PipeDeleted

\* one line read by _nextLine(buffer, true) and taken apart; a line of
\* white space only is skipped and the input ends after it
ReadPointValue(line, stampRequired) ==
    IF TrimLine(line) = <<>> THEN ParseError
    ELSE _fillPointValue(Buffer(TrimLine(line)), stampRequired)

\* the PointValues written: names and stamps without a space, states and
\* values that may hold spaces, brackets and quotes
NameChars == {"a", "\t"}
StateChars == {"s", " ", "[", "]", "\""}
ValueChars == {"7", " ", "\"", "["}
CodecNames == StringsUpTo(NameChars, MaxNameLen) \ {<<>>}
CodecPlainNames == StringsUpTo({"a"}, MaxNameLen) \ {<<>>}
CodecStates ==
    {Absent, CharsOf(PipeDeleted)} \cup StringsUpTo(StateChars, MaxTextLen)
CodecValues == {Absent} \cup StringsUpTo(ValueChars, MaxTextLen)

\* the line of a peer that doubles the brackets of a state
DoubledLine(pv) ==
    pv.pointName \o <<" ">> \o pv.stamp
    \o (IF pv.state = Absent THEN <<>>
        ELSE <<" ", "[">>
             \o Flatten([i \in 1 .. Len(pv.state) |->
                            StateChar_Doubled(pv.state[i])])
             \o <<"]">>)
    \o ValuePart(pv.value)

\* the line of a peer that leaves the stamp out
NoStampLine(pv) == pv.pointName \o StatePart(pv.state) \o ValuePart(pv.value)

\* the line of a peer that writes - where the value would stand, followed
\* by the text of the value, if any, without quotes
DeleteLine(pv) ==
    pv.pointName \o <<" ">> \o pv.stamp \o StatePart(pv.state)
    \o <<" ", "-">> \o (IF pv.value = Absent THEN <<>> ELSE pv.value)

NoLineYet == <<"none">>
NotParsed == Parsed("none", Absent, Absent, Absent, Absent)

CodecFrame == UNCHANGED <<mapVars, pipeVars, xpVars, elVars, streamVars,
    readerVars, getterVars, storeVars, proxyVars, textVars, encVars>>

CodecInit ==
    /\ pvMode \in {"emit", "doubled", "nostamp", "delete"}
    /\ pvIn \in [pointName : IF pvMode = "emit" THEN CodecNames
                              ELSE CodecPlainNames,
                  stamp : IF pvMode = "emit" THEN CodecNames
                          ELSE CodecPlainNames,
                  state : CodecStates, value : CodecValues]
    /\ pvLine = NoLineYet
    /\ pvOut = NotParsed

CodecIdle ==
    /\ pvMode = "emit"
    /\ pvIn = PointValue(<<"a">>, <<"a">>, Absent, Absent)
    /\ pvLine = NoLineYet
    /\ pvOut = NotParsed

\* endEngineRequest writes the line of a result
CodecEmit ==
    /\ pvMode = "emit"
    /\ pvLine = NoLineYet
    /\ pvLine' = _pointValueToBuffer(pvIn)
    /\ UNCHANGED <<pvIn, pvMode, pvOut>>
    /\ CodecFrame

\* the peer writes the line of an input
CodecPeerWrites ==
    /\ pvMode # "emit"
    /\ pvLine = NoLineYet
    /\ pvLine' = IF pvMode = "doubled" THEN DoubledLine(pvIn)
                 ELSE IF pvMode = "delete" THEN DeleteLine(pvIn)
                 ELSE NoStampLine(pvIn)
    /\ UNCHANGED <<pvIn, pvMode, pvOut>>
    /\ CodecFrame

\* nextEngineRequest reads the line: as the result (stamp required) or as
\* an input (stamp not required)
CodecParse ==
    /\ pvLine # NoLineYet
    /\ pvOut = NotParsed
    /\ \E stampRequired \in BOOLEAN :
          pvOut' = ReadPointValue(pvLine, stampRequired)
    /\ UNCHANGED <<pvIn, pvMode, pvLine>>
    /\ CodecFrame

CodecNext ==
    \/ CodecEmit
    \/ CodecPeerWrites
    \/ CodecParse

(***************************************************************************)
(* The request reader of the PIPE endpoint (lib/impl/rvpf_pipe.c) under a  *)
(* driver that follows the setjmp pattern of test-rvpf_pipe.c: stdin is    *)
(* the sequence of the lines still to be read, each ended by a newline and *)
(* free of carriage returns; stdout the sequence of the lines written.     *)
(***************************************************************************)
ENGINE_REQUEST_FORMAT_VERSION == 1
SINK_REQUEST_FORMAT_VERSION == 1
RVPF_LOG_LEVEL_NONE == 0
RVPF_LOG_LEVEL_FATAL == 1
RVPF_LOG_LEVEL_ERROR == 2
RVPF_LOG_LEVEL_TRACE == 6



\* a variant of _nextLine for which the end of the input is never an error
RECURSIVE _nextLine_Lenient(_, _)
_nextLine_Lenient(lines, required) ==
    IF lines = <<>>
    THEN [line |-> Absent, rest |-> <<>>, error |-> FALSE]
    ELSE IF TrimLine(lines[1]) = <<>>
    THEN _nextLine_Lenient(Tail(lines), required)
    ELSE [line |-> TrimLine(lines[1]), rest |-> Tail(lines), error |-> FALSE]

\* _nextLine over the lines left on stdin: a line of white space only is
\* skipped; at the end of the input the call returns NULL, or calls
\* rvpf_pipe_error when a line is required
RECURSIVE _nextLine(_, _)
_nextLine(lines, required) ==
    IF lines = <<>>
    THEN [line |-> Absent, rest |-> <<>>, error |-> required]
    ELSE IF TrimLine(lines[1]) = <<>> THEN _nextLine(Tail(lines), required)
    ELSE [line |-> TrimLine(lines[1]), rest |-> Tail(lines), error |-> FALSE]

\* a variant of _firstLine for which a line "0" is a line like any other
RECURSIVE _firstLine_ZeroIsData(_, _)
_firstLine_ZeroIsData(lines, echoed) ==
    LET n == _nextLine(lines, FALSE)
    IN IF n.line = Absent \/ " " \in Range(n.line)
       THEN [line |-> n.line, rest |-> n.rest, echoed |-> echoed]
       ELSE _firstLine_ZeroIsData(n.rest, Append(echoed, n.line))

\* a variant of _firstLine that writes nothing for the lines it skips
RECURSIVE _firstLine_Silent(_, _)
_firstLine_Silent(lines, echoed) ==
    LET n == _nextLine(lines, FALSE)
    IN IF n.line = Absent \/ " " \in Range(n.line)
       THEN [line |-> n.line, rest |-> n.rest, echoed |-> echoed]
       ELSE IF n.line = <<"0">>
       THEN [line |-> Absent, rest |-> n.rest, echoed |-> echoed]
       ELSE _firstLine_Silent(n.rest, echoed)

\* _firstLine: the first line that holds a space starts a request; NULL at
\* the end of the input or on a line "0"; any other line is written to
\* stdout by _flushBuffer and the next one is read
RECURSIVE _firstLine(_, _)
_firstLine(lines, echoed) ==
    LET n == _nextLine(lines, FALSE)
    IN IF n.line = Absent \/ " " \in Range(n.line)
       THEN [line |-> n.line, rest |-> n.rest, echoed |-> echoed]
       ELSE IF n.line = <<"0">>
       THEN [line |-> Absent, rest |-> n.rest, echoed |-> echoed]
       ELSE _firstLine(n.rest, Append(echoed, n.line))

\* _stringToInt: strtol skips white space, takes a sign and the digits; the
\* call is an error unless strtol stopped at the end of the string.  The
\* fields of the model are too short for the value to leave the int range.
_stringToInt(string) ==
    LET s0 == DropLeadingSpace(string)
        signed == s0 # <<>> /\ s0[1] \in {"-", "+"}
        body == IF signed THEN Tail(s0) ELSE s0
        n == Span(body, 0, Range(DigitChars))
        magnitude == Decimal(SubSeq(body, 1, n), 0)
    IN [value |-> IF n = 0 THEN 0
                  ELSE IF signed /\ s0[1] = "-" THEN 0 - magnitude
                  ELSE magnitude,
        error |-> IF n = 0 THEN string # <<>> ELSE n # Len(body)]

RECURSIVE NatToChars(_)
NatToChars(n) ==
    IF n < 10 THEN <<DigitChars[n + 1]>>
    ELSE NatToChars(n \div 10) \o <<DigitChars[(n % 10) + 1]>>

\* _intToBuffer: snprintf with %i
_intToBuffer(value) ==
    IF value < 0 THEN <<"-">> \o NatToChars(0 - value) ELSE NatToChars(value)

\* how a call left: "request" when it returned one, "stop" through _stop,
\* "error" through rvpf_pipe_error, "versionError" through the
\* rvpf_pipe_error call of the version check, "allocFailed" through the
\* rvpf_pipe_fatal call of _alloc; rest is the input left, echoed the lines
\* _firstLine wrote to stdout
Outcome(outcome, rest, echoed, req) ==
    [outcome |-> outcome, rest |-> rest, echoed |-> echoed, request |-> req]

\* n fields, each taken by _nextField(buffer, true, false)
RECURSIVE RequiredFields(_, _, _)
RequiredFields(b, n, got) ==
    IF n = 0 THEN [error |-> FALSE, b |-> b, got |-> got]
    ELSE The({IF f.error THEN [error |-> TRUE, b |-> f.b, got |-> got]
              ELSE RequiredFields(f.b, n - 1, Append(got, f.field)) :
              f \in {_nextField(b, TRUE, FALSE)}})

\* n fields, each taken by _stringToInt(_nextField(buffer, true, false))
IntFields(b, n) ==
    The({IF f.error \/ \E i \in 1 .. n : _stringToInt(f.got[i]).error
         THEN [error |-> TRUE, b |-> f.b, got |-> <<>>]
         ELSE [error |-> FALSE, b |-> f.b,
               got |-> [i \in 1 .. n |-> _stringToInt(f.got[i]).value]] :
         f \in {RequiredFields(b, n, <<>>)}})

\* one line taken apart by _fillPointValue, added to the lines got
PointValueLine_(n, stampRequired, got) ==
    The({[error |-> pv.status = "error", got |-> Append(got, pv),
          rest |-> n.rest] :
         pv \in {_fillPointValue(Buffer(n.line), stampRequired)}})

\* count lines, each read by _nextLine(buffer, true): cloned, or taken
\* apart by _fillPointValue when parsed
RECURSIVE RequiredLines(_, _, _, _, _)
RequiredLines(lines, count, parsed, stampRequired, got) ==
    IF count <= 0 THEN [error |-> FALSE, got |-> got, rest |-> lines]
    ELSE The({IF n.error THEN [error |-> TRUE, got |-> got, rest |-> n.rest]
              ELSE IF ~parsed
              THEN RequiredLines(n.rest, count - 1, parsed, stampRequired,
                                 Append(got, n.line))
              ELSE The({IF pv.error THEN pv
                        ELSE RequiredLines(n.rest, count - 1, parsed,
                                           stampRequired, pv.got) :
                        pv \in {PointValueLine_(n, stampRequired, got)}}) :
              n \in {_nextLine(lines, TRUE)}})

\* the transformParams, pointParams and inputs of an engine request: for
\* each count that is not zero an array is allocated, which fails for a
\* negative count, and its lines are read
RECURSIVE EngineLists(_, _, _)
EngineLists(lines, counts, got) ==
    IF counts = <<>> THEN [outcome |-> "ok", got |-> got, rest |-> lines]
    ELSE IF counts[1] < 0
    THEN [outcome |-> "allocFailed", got |-> got, rest |-> lines]
    ELSE The({IF list.error
              THEN [outcome |-> "error", got |-> got, rest |-> list.rest]
              ELSE EngineLists(list.rest, Tail(counts),
                               Append(got, list.got)) :
              list \in {RequiredLines(lines, counts[1], Len(counts) = 1,
                                      FALSE, <<>>)}})

Header(outcome, first, b, requestID, version) ==
    [outcome |-> outcome, rest |-> first.rest, echoed |-> first.echoed,
     b |-> b, requestID |-> requestID, version |-> version]

\* the check of the version of a first line
VersionCheck(first, h, version, supported) ==
    IF version.error THEN Header("error", first, h.b, Absent, 0)
    ELSE IF version.value > supported
    THEN Header("versionError", first, h.b, Absent, 0)
    ELSE Header("ok", first, h.b, h.got[1], version.value)

\* the start of nextEngineRequest and of nextSinkRequest, after _firstLine:
\* the requestID and the version of the first line, and the version check
ReadHeader(first, supported) ==
    IF first.line = Absent THEN Header("stop", first, <<>>, Absent, 0)
    ELSE The({IF h.error THEN Header("error", first, h.b, Absent, 0)
              ELSE The({VersionCheck(first, h, version, supported) :
                        version \in {_stringToInt(h.got[2])}}) :
              h \in {RequiredFields(Buffer(first.line), 2, <<>>)}})

Left(h, outcome, rest) == Outcome(outcome, rest, h.echoed, <<>>)

EngineRequest(h, result, lists) ==
    IF lists.outcome # "ok" THEN Left(h, lists.outcome, lists.rest)
    ELSE Outcome("request", lists.rest, h.echoed,
                 <<[requestID |-> h.requestID, version |-> h.version,
                    transformParams |-> lists.got[1],
                    pointParams |-> lists.got[2],
                    inputs |-> lists.got[3], result |-> result]>>)

EngineResult(h, counts, result) ==
    IF result.error THEN Left(h, "error", result.rest)
    ELSE The({EngineRequest(h, result.got[1], lists) :
              lists \in {EngineLists(result.rest, counts, <<>>)}})

EngineCounts(h, counts) ==
    IF counts.error THEN Left(h, "error", h.rest)
    ELSE The({EngineResult(h, counts.got, result) :
              result \in {RequiredLines(h.rest, 1, TRUE, TRUE, <<>>)}})

EngineHeader(h) ==
    IF h.outcome # "ok" THEN Left(h, h.outcome, h.rest)
    ELSE The({EngineCounts(h, counts) : counts \in {IntFields(h.b, 3)}})

\* rvpf_pipe_nextEngineRequest over the lines left on stdin
ReadEngineRequest(lines) ==
    The({EngineHeader(h) :
         h \in {ReadHeader(first, ENGINE_REQUEST_FORMAT_VERSION) :
                first \in {_firstLine(lines, <<>>)}}})

SinkRequest(h, field, pv) ==
    IF pv.error THEN Left(h, "error", pv.rest)
    ELSE Outcome("request", pv.rest, h.echoed,
                 <<[requestID |-> h.requestID, version |-> h.version,
                    requestType |-> IF field = <<"+">> THEN "Update"
                                    ELSE "Delete",
                    pointValue |-> pv.got[1]]>>)

SinkType(h, field) ==
    IF field.error \/ field.field \notin {<<"+">>, <<"-">>}
    THEN Left(h, "error", h.rest)
    ELSE The({SinkRequest(h, field.field, pv) :
              pv \in {RequiredLines(h.rest, 1, TRUE, field.field = <<"+">>,
                                    <<>>)}})

SinkHeader(h) ==
    IF h.outcome # "ok" THEN Left(h, h.outcome, h.rest)
    ELSE The({SinkType(h, field) : field \in {_nextField(h.b, TRUE, FALSE)}})

\* rvpf_pipe_nextSinkRequest over the lines left on stdin
ReadSinkRequest(lines) ==
    The({SinkHeader(h) :
         h \in {ReadHeader(first, SINK_REQUEST_FORMAT_VERSION) :
                first \in {_firstLine(lines, <<>>)}}})

\* the lines endEngineRequest writes for a request to which the driver
\* added no result
EngineResponse(req) ==
    LET summary == IF req.result.value # Absent THEN 1 ELSE 0
    IN <<req.requestID \o <<" ">> \o _intToBuffer(summary)>>
       \o (IF summary > 0 THEN <<_pointValueToBuffer(req.result)>> ELSE <<>>)

\* the line endSinkRequest writes
SinkResponse(req, summary) ==
    <<req.requestID \o <<" ">> \o _intToBuffer(summary)>>

\* the lines on stdin
RequestLines ==
    {<<"4", " ", "1", " ", "0", " ", "0", " ", "0">>,
     <<"4", " ", "2", " ", "0", " ", "0", " ", "0">>,
     <<"4", " ", "1", " ", "0", " ", "0", " ", "1">>,
     <<"4", " ", "1", " ", "1", " ", "1", " ", "0">>,
     <<"4", " ", "1", " ", "0", " ", "0", " ", "-", "1">>,
     <<"4", " ", "1", " ", "+">>,
     <<"4", " ", "1", " ", "-">>,
     <<"4", " ", "2", " ", "+">>}
OtherLines ==
    {<<"0">>, <<" ", "0">>, <<>>, <<"x">>,
     <<"a", " ", "t", " ", "\"", "7", "\"">>, <<"a">>,
     <<"a", " ", "\"", "7", "\"">>}

RECURSIVE LinesUpTo(_, _)
LinesUpTo(lines, n) ==
    IF n = 0 THEN {<<>>}
    ELSE LET shorter == LinesUpTo(lines, n - 1)
         IN shorter \cup {Append(t, l) : t \in shorter, l \in lines}

NoCall ==
    [op |-> "none", outcome |-> "none", stdin |-> <<>>, stdout |-> <<>>,
     status |-> RVPF_PIPE_STATUS_OK, live |-> 0]

ReaderFrame == UNCHANGED <<mapVars, pipeVars, xpVars, elVars, streamVars,
    codecVars, getterVars, storeVars, proxyVars, textVars, encVars>>

\* the process starts: argv[1] is the mode, RVPF_LOG_LEVEL may silence the
\* log, and main stands in its loop with status OK
ReaderInit ==
    /\ mode \in {"TRANSFORM", "SINK"}
    /\ _level \in {RVPF_LOG_LEVEL_NONE, RVPF_LOG_LEVEL_TRACE}
    /\ stdin \in LinesUpTo(RequestLines \cup OtherLines, MaxLines)
    /\ stdout = <<>>
    /\ readerStatus = RVPF_PIPE_STATUS_OK
    /\ mainPc = "boundary"
    /\ held = <<>>
    /\ live = 0
    /\ exitCode = <<>>
    /\ readLast = NoCall

ReaderIdle ==
    /\ mode = "TRANSFORM"
    /\ _level = RVPF_LOG_LEVEL_TRACE
    /\ stdin = <<>>
    /\ stdout = <<>>
    /\ readerStatus = RVPF_PIPE_STATUS_OK
    /\ mainPc = "boundary"
    /\ held = <<>>
    /\ live = 0
    /\ exitCode = <<>>
    /\ readLast = NoCall

\* longjmp to the setjmp of main, which returns rvpf_pipe_status
Unwind(status) ==
    /\ readerStatus' = status
    /\ mainPc' = "returned"
    /\ exitCode' = <<status>>

\* a message is formatted with an argument that does not have the type its
\* conversion asks for: the process is killed while vfprintf reads it, or
\* vfprintf returns and the call goes on
KilledInLog ==
    /\ mainPc' = "crashed"
    /\ UNCHANGED <<readerStatus, exitCode>>

\* what a call of nextEngineRequest or nextSinkRequest leaves behind
ReaderReturn(op, r) ==
    /\ readLast' = [op |-> op, outcome |-> r.outcome, stdin |-> stdin,
                    stdout |-> stdout, status |-> readerStatus, live |-> live]
    /\ stdin' = r.rest
    /\ stdout' = stdout \o r.echoed
    /\ held' = r.request
    /\ live' = IF r.outcome = "stop" THEN live ELSE live + 1
    /\ CASE r.outcome = "request" ->
              /\ mainPc' = "held"
              /\ UNCHANGED <<readerStatus, exitCode>>
         [] r.outcome = "stop" -> Unwind(RVPF_PIPE_STATUS_OK)
         [] r.outcome = "error" -> Unwind(RVPF_PIPE_STATUS_ERROR)
         [] r.outcome = "versionError" ->
              \/ Unwind(RVPF_PIPE_STATUS_ERROR)
              \/ _level >= RVPF_LOG_LEVEL_ERROR /\ KilledInLog
         [] r.outcome = "allocFailed" ->
              \/ Unwind(RVPF_PIPE_STATUS_FATAL)
              \/ _level >= RVPF_LOG_LEVEL_FATAL /\ KilledInLog
    /\ UNCHANGED <<mode, _level>>

\* _doTransform calls rvpf_pipe_nextEngineRequest
ReaderNextEngine ==
    /\ mode = "TRANSFORM"
    /\ mainPc = "boundary"
    /\ \E r \in {ReadEngineRequest(stdin)} : ReaderReturn("nextEngineRequest", r)
    /\ ReaderFrame

\* _doSink calls rvpf_pipe_nextSinkRequest
ReaderNextSink ==
    /\ mode = "SINK"
    /\ mainPc = "boundary"
    /\ \E r \in {ReadSinkRequest(stdin)} : ReaderReturn("nextSinkRequest", r)
    /\ ReaderFrame

\* the driver ends the request it holds: rvpf_pipe_endEngineRequest
ReaderEndEngine ==
    /\ mode = "TRANSFORM"
    /\ mainPc = "held"
    /\ stdout' = stdout \o EngineResponse(held[1])
    /\ held' = <<>>
    /\ live' = live - 1
    /\ mainPc' = "boundary"
    /\ readLast' = [op |-> "endEngineRequest", outcome |-> "returned",
                    stdin |-> stdin, stdout |-> stdout,
                    status |-> readerStatus, live |-> live]
    /\ UNCHANGED <<mode, _level, stdin, readerStatus, exitCode>>
    /\ ReaderFrame

\* the driver ends the request it holds: rvpf_pipe_endSinkRequest(request, 1)
ReaderEndSink ==
    /\ mode = "SINK"
    /\ mainPc = "held"
    /\ stdout' = stdout \o SinkResponse(held[1], 1)
    /\ held' = <<>>
    /\ live' = live - 1
    /\ mainPc' = "boundary"
    /\ readLast' = [op |-> "endSinkRequest", outcome |-> "returned",
                    stdin |-> stdin, stdout |-> stdout,
                    status |-> readerStatus, live |-> live]
    /\ UNCHANGED <<mode, _level, stdin, readerStatus, exitCode>>
    /\ ReaderFrame

\* a driver that loops: after a recoverable error it does not return from
\* main but goes on to the next request, without touching rvpf_pipe_status
ReaderContinue ==
    /\ mainPc = "returned"
    /\ readerStatus = RVPF_PIPE_STATUS_ERROR
    /\ mainPc' = "boundary"
    /\ exitCode' = <<>>
    /\ held' = <<>>
    /\ readLast' = [op |-> "continue", outcome |-> "returned",
                    stdin |-> stdin, stdout |-> stdout,
                    status |-> readerStatus, live |-> live]
    /\ UNCHANGED <<mode, _level, stdin, stdout, readerStatus, live>>
    /\ ReaderFrame

ReaderNext ==
    \/ ReaderNextEngine
    \/ ReaderNextSink
    \/ ReaderEndEngine
    \/ ReaderEndSink
    \/ ReaderContinue

(***************************************************************************)
(* The accessors of an engine request (lib/impl/rvpf_pipe.c): the driver   *)
(* holds a request read by nextEngineRequest and asks for its inputs and   *)
(* parameters by position.                                                 *)
(***************************************************************************)
\* what an accessor gives back: the element, the NULL pointer, or what the
\* build makes of an access before the start of the array
Element_(e) == [kind |-> "element", value |-> e]
NullPointer == [kind |-> "NULL", value |-> Absent]
OutOfBounds == [kind |-> "outOfBounds", value |-> Absent]
Killed == [kind |-> "killed", value |-> Absent]

\* a variant of the range test that also refuses negative positions
InRange_Positive(position, count) == position >= 1 /\ position <= count

\* position && position <= count
InRange(position, count) == position # 0 /\ position <= count

\* rvpf_pipe_getEngineInput: the address inputs.at + position - 1, which is
\* not read
rvpf_pipe_getEngineInput(req, position) ==
    IF InRange(position, Len(req.inputs))
    THEN IF position >= 1 THEN {Element_(req.inputs[position])}
         ELSE {OutOfBounds}
    ELSE {NullPointer}

\* rvpf_pipe_getEnginePointParam: reads pointParams.at[position - 1]
rvpf_pipe_getEnginePointParam(req, position) ==
    IF InRange(position, Len(req.pointParams))
    THEN IF position >= 1 THEN {Element_(req.pointParams[position])}
         ELSE {OutOfBounds, Killed}
    ELSE {NullPointer}

\* rvpf_pipe_getEngineTransformParam: reads transformParams.at[position - 1]
rvpf_pipe_getEngineTransformParam(req, position) ==
    IF InRange(position, Len(req.transformParams))
    THEN IF position >= 1 THEN {Element_(req.transformParams[position])}
         ELSE {OutOfBounds, Killed}
    ELSE {NullPointer}

\* the lists of a request: up to MaxParams lines each
GetterParams == LinesUpTo({<<"p">>, <<"q">>}, MaxParams)
GetterInputs ==
    LinesUpTo({Parsed("ok", <<"a">>, <<"t">>, Absent, <<"7">>),
               Parsed("ok", <<"b">>, Absent, Absent, Absent)}, MaxParams)

NoGet == [name |-> "none", position |-> 0, result |-> NullPointer]

GetterFrame == UNCHANGED <<mapVars, pipeVars, xpVars, elVars, streamVars,
    codecVars, readerVars, storeVars, proxyVars, textVars, encVars>>

GetterInit ==
    /\ getRequest \in [transformParams : GetterParams,
                       pointParams : GetterParams, inputs : GetterInputs]
    /\ getLast = NoGet

GetterIdle ==
    /\ getRequest = [transformParams |-> <<>>, pointParams |-> <<>>,
                     inputs |-> <<>>]
    /\ getLast = NoGet

GetterReturn(name, position, result) ==
    /\ getLast.result.kind # "killed"
    /\ getLast' = [name |-> name, position |-> position, result |-> result]
    /\ UNCHANGED getRequest

GetEngineInput ==
    /\ \E position \in 0 - MaxPosition .. MaxPosition :
          \E result \in rvpf_pipe_getEngineInput(getRequest, position) :
             GetterReturn("getEngineInput", position, result)
    /\ GetterFrame

GetEnginePointParam ==
    /\ \E position \in 0 - MaxPosition .. MaxPosition :
          \E result \in rvpf_pipe_getEnginePointParam(getRequest, position) :
             GetterReturn("getEnginePointParam", position, result)
    /\ GetterFrame

GetEngineTransformParam ==
    /\ \E position \in 0 - MaxPosition .. MaxPosition :
          \E result \in
                rvpf_pipe_getEngineTransformParam(getRequest, position) :
             GetterReturn("getEngineTransformParam", position, result)
    /\ GetterFrame

GetterNext ==
    \/ GetEngineInput
    \/ GetEnginePointParam
    \/ GetEngineTransformParam

(***************************************************************************)
(* The value codec of the C store (store/CStoreImpl.c).  A value is the    *)
(* bytes value[0 .. size-1]: the type byte, then either the number, most   *)
(* significant byte first, or the payload split into blocks.  The bytes    *)
(* are held as runs: a run is one written byte, a stretch of the payload   *)
(* handed to CStore_newValue (memcpy moves stretches), or a stretch of the *)
(* allocation that was zeroed and never written.                           *)
(***************************************************************************)
VALUE_TYPE_LONG == "j"
VALUE_TYPE_SHORT == "s"
VALUE_TYPE_STRING == "t"
VALUE_TYPE_BYTE_ARRAY == "a"
VALUE_TYPE_INTEGER == "i"
VALUE_TYPE_BYTE == "b"
VALUE_TYPE_STATE == "q"
VALUE_TYPE_NULL == "0"

Lit(v) == [kind |-> "lit", at |-> v, len |-> 1]
Slice(from, n) == [kind |-> "payload", at |-> from, len |-> n]
Fresh(n) == [kind |-> "fresh", at |-> 0, len |-> n]

\* the payload argument: valueLength bytes, none of them written here
Payload(valueLength) ==
    IF valueLength = 0 THEN <<>> ELSE <<Slice(0, valueLength)>>

\* the byte at an offset of the payload argument
PayloadByte(offset) == (offset % 251) + 1

RECURSIVE RunsLength(_)
RunsLength(runs) ==
    IF runs = <<>> THEN 0 ELSE Head(runs).len + RunsLength(Tail(runs))

\* the byte at a 0-based offset of the runs
RECURSIVE ByteAt(_, _)
ByteAt(runs, offset) ==
    IF offset >= Head(runs).len
    THEN ByteAt(Tail(runs), offset - Head(runs).len)
    ELSE CASE Head(runs).kind = "lit" -> Head(runs).at
           [] Head(runs).kind = "payload" ->
                PayloadByte(Head(runs).at + offset)
           [] OTHER -> 0

\* the n bytes from a 0-based offset of the runs
RECURSIVE Extract(_, _, _)
Extract(runs, offset, n) ==
    IF n = 0 \/ runs = <<>> THEN <<>>
    ELSE IF offset >= Head(runs).len
    THEN Extract(Tail(runs), offset - Head(runs).len, n)
    ELSE LET take == IF n < Head(runs).len - offset
                     THEN n ELSE Head(runs).len - offset
             piece == IF Head(runs).kind = "payload"
                      THEN Slice(Head(runs).at + offset, take)
                      ELSE [Head(runs) EXCEPT !.len = take]
         IN  <<piece>> \o Extract(Tail(runs), 0, n - take)

\* stretches of the payload that follow each other are one stretch
RECURSIVE Bytes(_)
Bytes(runs) ==
    IF Len(runs) < 2 THEN runs
    ELSE IF /\ runs[1].kind = "payload" /\ runs[2].kind = "payload"
            /\ runs[2].at = runs[1].at + runs[1].len
    THEN Bytes(<<Slice(runs[1].at, runs[1].len + runs[2].len)>>
               \o SubSeq(runs, 3, Len(runs)))
    ELSE <<runs[1]>> \o Bytes(Tail(runs))

\* c_store_long_t, 64 bits, as four 16-bit limbs, the first one signed
Signed8(b) == IF b >= 128 THEN b - 256 ELSE b
Signed16(w) == IF w >= 32768 THEN w - 65536 ELSE w
\* the conversion of an int to c_store_long_t
ToLong(i) ==
    <<IF i < 0 THEN 0 - 1 ELSE 0, IF i < 0 THEN 65535 ELSE 0,
      (i \div 65536) % 65536, i % 65536>>

\* _splitLength
_splitLength(joinedLength) ==
    LET length == joinedLength + (joinedLength \div MAX_BYTES_BLOCK + 1) * 2
    IN  IF length % MAX_BYTES_BLOCK # 0 THEN length + 2 ELSE length

\* _splitValue: the bytes it writes from splitPointer on
RECURSIVE _splitValue(_, _, _)
_splitValue(value, valueLength, joinedPointer) ==
    LET length == IF valueLength > MAX_BYTES_BLOCK
                  THEN MAX_BYTES_BLOCK ELSE valueLength
    IN  <<Lit((length \div 256) % 256), Lit(length % 256)>> \o
        IF length = 0 THEN <<>>
        ELSE Extract(value, joinedPointer, length) \o
             _splitValue(value, valueLength - length, joinedPointer + length)

\* the allocation of valueLength bytes, zeroed, after the writes: what was written
\* past its end is an overrun of the heap block
Allocated(valueLength, written) ==
    [size |-> valueLength,
     value |-> IF RunsLength(written) >= valueLength
               THEN Extract(written, 0, valueLength)
               ELSE written \o <<Fresh(valueLength - RunsLength(written))>>,
     overrun |-> IF RunsLength(written) > valueLength
                 THEN RunsLength(written) - valueLength ELSE 0]

\* the bytes CStore_newValue writes for a number: x >> 8k, cut to a byte
NumberBytes(arg) ==
    CASE arg.type = VALUE_TYPE_LONG ->
           <<Lit((arg.long[1] \div 256) % 256), Lit(arg.long[1] % 256),
             Lit((arg.long[2] \div 256) % 256), Lit(arg.long[2] % 256),
             Lit((arg.long[3] \div 256) % 256), Lit(arg.long[3] % 256),
             Lit((arg.long[4] \div 256) % 256), Lit(arg.long[4] % 256)>>
      [] arg.type = VALUE_TYPE_INTEGER ->
           <<Lit((arg.number \div 16777216) % 256),
             Lit((arg.number \div 65536) % 256),
             Lit((arg.number \div 256) % 256), Lit(arg.number % 256)>>
      [] arg.type = VALUE_TYPE_SHORT ->
           <<Lit((arg.number \div 256) % 256), Lit(arg.number % 256)>>
      [] arg.type = VALUE_TYPE_BYTE -> <<Lit(arg.number % 256)>>

CStore_newValue(arg) ==
    IF arg.type \in {VALUE_TYPE_STRING, VALUE_TYPE_BYTE_ARRAY}
    THEN Allocated(1 + _splitLength(arg.length),
                   <<Lit(arg.type)>>
                   \o _splitValue(Payload(arg.length), arg.length, 0))
    ELSE Allocated(1 + Len(NumberBytes(arg)),
                   <<Lit(arg.type)>> \o NumberBytes(arg))

CStore_getValueType(storeValue_) ==
    IF storeValue_.size # 0 THEN ByteAt(storeValue_.value, 0)
    ELSE VALUE_TYPE_NULL

\* what a decoder gives back
Decoded(op, ok, long, string, beyond) ==
    [op |-> op, ok |-> ok, long |-> long, string |-> string,
     beyond |-> beyond, killed |-> FALSE]
KilledIn(op) ==
    [op |-> op, ok |-> FALSE, long |-> ToLong(0), string |-> <<>>,
     beyond |-> TRUE, killed |-> TRUE]
NoOut == Decoded("none", FALSE, ToLong(0), <<>>, FALSE)

\* value[k] as (unsigned char)
UByte(storeValue_, k) == ByteAt(storeValue_.value, k)

CStore_valueToLong(storeValue_) ==
    LET valueType == CStore_getValueType(storeValue_)
        long ==
          CASE valueType = VALUE_TYPE_LONG ->
                 <<Signed16(UByte(storeValue_, 1) * 256
                            + UByte(storeValue_, 2)),
                   UByte(storeValue_, 3) * 256 + UByte(storeValue_, 4),
                   UByte(storeValue_, 5) * 256 + UByte(storeValue_, 6),
                   UByte(storeValue_, 7) * 256 + UByte(storeValue_, 8)>>
            [] valueType = VALUE_TYPE_INTEGER ->
                 \* the first byte is shifted as an int and wraps
                 ToLong(Signed8(UByte(storeValue_, 1)) * 16777216
                        + UByte(storeValue_, 2) * 65536
                        + UByte(storeValue_, 3) * 256
                        + UByte(storeValue_, 4))
            [] valueType = VALUE_TYPE_SHORT ->
                 ToLong(UByte(storeValue_, 1) * 256 + UByte(storeValue_, 2))
            [] valueType = VALUE_TYPE_BYTE ->
                 ToLong(Signed8(UByte(storeValue_, 1)))
            [] OTHER -> ToLong(0)
    IN  {Decoded("valueToLong",
                 valueType \in {VALUE_TYPE_LONG, VALUE_TYPE_INTEGER,
                           VALUE_TYPE_SHORT, VALUE_TYPE_BYTE},
                 long, <<>>, FALSE)}

\* the loop of _joinedValueLength and _joinValue: from value[pointer], a
\* two-byte length and that many bytes, until a length of zero; beyond says
\* that the loop went past value[size - 1]
RECURSIVE _joinValue(_, _, _)
_joinValue(storeValue_, pointer, buffer) ==
    IF pointer + 2 > storeValue_.size
    THEN [bytes |-> buffer, beyond |-> TRUE]
    ELSE LET length == UByte(storeValue_, pointer) * 256
                       + UByte(storeValue_, pointer + 1)
         IN  IF length = 0 THEN [bytes |-> buffer, beyond |-> FALSE]
             ELSE IF pointer + 2 + length > storeValue_.size
             THEN [bytes |-> buffer, beyond |-> TRUE]
             ELSE _joinValue(storeValue_, pointer + 2 + length,
                             buffer \o Extract(storeValue_.value,
                                               pointer + 2, length))

_joinedValueLength(storeValue_) ==
    RunsLength(_joinValue(storeValue_, 1, <<>>).bytes)

\* CStore_valueToString: past the end of the value the loop reads whatever
\* follows it in memory
CStore_valueToString(storeValue_) ==
    IF CStore_getValueType(storeValue_) # VALUE_TYPE_STRING
    THEN {Decoded("valueToString", FALSE, ToLong(0), <<>>, FALSE)}
    ELSE LET joined == The({_joinValue(v, 1, <<>>) : v \in {storeValue_}})
         IN  IF joined.beyond
             THEN {Decoded("valueToString", TRUE, ToLong(0),
                           Bytes(joined.bytes), TRUE),
                   KilledIn("valueToString")}
             ELSE {Decoded("valueToString", TRUE, ToLong(0),
                           Bytes(joined.bytes), FALSE)}

\* the numbers and payload lengths handed to CStore_newValue
LongNumbers ==
    {<<0, 0, 0, 0>>, <<0, 0, 0, 1>>, <<0 - 1, 65535, 65535, 65535>>,
     <<0 - 32768, 0, 0, 0>>, <<32767, 65535, 65535, 65535>>,
     <<0, 0, 1, 0>>, <<0 - 1, 65535, 65535, 65280>>,
     <<4660, 22136, 39612, 57072>>, <<0, 0, 32768, 0>>}
IntegerNumbers ==
    {0 - 2147483647 - 1, 0 - 65536, 0 - 256, 0 - 1, 0, 1, 255, 32768,
     305419896, 2147483647}
ShortNumbers == {0 - 32768, 0 - 256, 0 - 1, 0, 1, 255, 256, 32767}
ByteNumbers == {0 - 128, 0 - 1, 0, 1, 127}
PayloadLengths ==
    {0, 1, 2, 300, 65531, 65532, 65533, 65534, 65535, 131068, 131069}

\* the byte arrays the Java side hands over: a type byte and up to MaxRaw
\* bytes
RawBytes == {0, 1, 2}
RECURSIVE RawUpTo(_)
RawUpTo(n) ==
    IF n = 0 THEN {<<>>}
    ELSE RawUpTo(n - 1) \cup
         {<<Lit(b)>> \o r : b \in RawBytes,
                            r \in {x \in RawUpTo(n - 1) : Len(x) = n - 1}}
RawValues ==
    {<<>>} \cup
    {<<Lit(t)>> \o r : t \in {VALUE_TYPE_STRING, VALUE_TYPE_BYTE_ARRAY,
                              VALUE_TYPE_STATE},
                       r \in RawUpTo(MaxRaw)}

\* the arguments of a call: the type, the number (an int, or a
\* c_store_long_t for VALUE_TYPE_LONG), the length of the payload, or the
\* bytes received
Arg(valueType, number, long, length, raw) ==
    [type |-> valueType, number |-> number, long |-> long,
     length |-> length, raw |-> raw]
StoreArgs ==
    {Arg(VALUE_TYPE_LONG, 0, n, 0, <<>>) : n \in LongNumbers} \cup
    {Arg(VALUE_TYPE_INTEGER, n, ToLong(0), 0, <<>>) : n \in IntegerNumbers}
    \cup
    {Arg(VALUE_TYPE_SHORT, n, ToLong(0), 0, <<>>) : n \in ShortNumbers} \cup
    {Arg(VALUE_TYPE_BYTE, n, ToLong(0), 0, <<>>) : n \in ByteNumbers} \cup
    {Arg(t, 0, ToLong(0), l, <<>>) :
        t \in {VALUE_TYPE_STRING, VALUE_TYPE_BYTE_ARRAY},
        l \in PayloadLengths} \cup
    {Arg("raw", 0, ToLong(0), 0, r) : r \in RawValues}

NoStoreValue == [size |-> 0, value |-> <<>>, overrun |-> 0]

StoreFrame == UNCHANGED <<mapVars, pipeVars, xpVars, elVars, streamVars,
    codecVars, readerVars, getterVars, proxyVars, textVars, encVars>>

StoreInit ==
    /\ storeArg \in StoreArgs
    /\ storeValue = NoStoreValue
    /\ storeOut = NoOut
    /\ storePc = "arg"

StoreIdle ==
    /\ storeArg = Arg("raw", 0, ToLong(0), 0, <<>>)
    /\ storeValue = NoStoreValue
    /\ storeOut = NoOut
    /\ storePc = "arg"

\* the driver builds a value
NewValue ==
    /\ storePc = "arg"
    /\ storeArg.type # "raw"
    /\ storeValue' = The({CStore_newValue(a) : a \in {storeArg}})
    /\ storePc' = "value"
    /\ UNCHANGED <<storeArg, storeOut>>
    /\ StoreFrame

\* CStore_acceptValues: a value arrives as a Java byte array
AcceptValue ==
    /\ storePc = "arg"
    /\ storeArg.type = "raw"
    /\ storeValue' = [size |-> Len(storeArg.raw), value |-> storeArg.raw,
                      overrun |-> 0]
    /\ storePc' = "value"
    /\ UNCHANGED <<storeArg, storeOut>>
    /\ StoreFrame

StoreReturn(result) ==
    /\ storeOut' = result
    /\ storePc' = IF result.killed THEN "killed" ELSE "value"
    /\ UNCHANGED <<storeArg, storeValue>>

ValueToLong ==
    /\ storePc = "value"
    /\ CStore_getValueType(storeValue) # VALUE_TYPE_STRING
    /\ \E result \in CStore_valueToLong(storeValue) : StoreReturn(result)
    /\ StoreFrame

ValueToString ==
    /\ storePc = "value"
    /\ \E result \in CStore_valueToString(storeValue) : StoreReturn(result)
    /\ StoreFrame

StoreNext ==
    \/ NewValue
    \/ AcceptValue
    \/ ValueToLong
    \/ ValueToString

(***************************************************************************)
(* The store bridge (store/ProxyStoreImpl.c): contexts on a Java VM hosted *)
(* in the process.  The host threads call RVPF_CStore_context and          *)
(* CStore_dispose without any lock; a call is cut where it reads and where *)
(* it writes the counter _contexts.  The allocations and the constructor   *)
(* of the hosted proxy succeed in the model.                               *)
(***************************************************************************)
ProxyThreads == 1 .. MaxThreads
ProxySlots == 1 .. MaxContexts

NoProxyCall == [name |-> "none", slot |-> 0, hosted |-> "none"]

IdleThread == [pc |-> "idle", reg |-> 0, slot |-> 0]

ProxyFrame == UNCHANGED <<mapVars, pipeVars, xpVars, elVars, streamVars,
    codecVars, readerVars, getterVars, storeVars, textVars, encVars>>

ProxyInit ==
    /\ proxyThreads \in ProxyThreads
    /\ proxyVm \in {"NULL", "host"}
    /\ _contexts = 0
    /\ _javaVM = "NULL"
    /\ _jvmHandle = FALSE
    /\ _storeProxyClass = FALSE
    /\ proxyJvm = IF proxyVm = "host" THEN "running" ELSE "none"
    /\ proxies = [s \in ProxySlots |-> [live |-> FALSE, connected |-> FALSE]]
    /\ proxyThread = [t \in ProxyThreads |-> IdleThread]
    /\ proxyLast = NoProxyCall
    /\ proxyPc = "running"

ProxyIdle ==
    /\ proxyThreads = 1
    /\ proxyVm = "NULL"
    /\ _contexts = 0
    /\ _javaVM = "NULL"
    /\ _jvmHandle = FALSE
    /\ _storeProxyClass = FALSE
    /\ proxyJvm = "none"
    /\ proxies = [s \in ProxySlots |-> [live |-> FALSE, connected |-> FALSE]]
    /\ proxyThread = [t \in ProxyThreads |-> IdleThread]
    /\ proxyLast = NoProxyCall
    /\ proxyPc = "running"

\* the globals of the bridge and the Java VM of the process
ProxyGlobals ==
    [contexts |-> _contexts, javaVM |-> _javaVM, jvmHandle |-> _jvmHandle,
     storeProxyClass |-> _storeProxyClass, jvm |-> proxyJvm, crash |-> FALSE]

SetProxyGlobals(g) ==
    /\ _contexts' = g.contexts
    /\ _javaVM' = g.javaVM
    /\ _jvmHandle' = g.jvmHandle
    /\ _storeProxyClass' = g.storeProxyClass
    /\ proxyJvm' = g.jvm
    /\ proxyPc' = IF g.crash THEN "crashed" ELSE proxyPc

\* _getJNIEnv: (*_javaVM)->AttachCurrentThread needs a Java VM
_getJNIEnv(g) == g.javaVM # "NULL" /\ g.jvm = "running"

\* _unloadClasses
_unloadClasses(g) ==
    IF ~_getJNIEnv(g) THEN [g EXCEPT !.crash = TRUE]
    ELSE [g EXCEPT !.storeProxyClass = FALSE]

\* the end of CStore_dispose: with no context left the classes are unloaded
\* and the Java VM that the bridge created is destroyed
Teardown(g) ==
    IF g.contexts # 0 THEN g
    ELSE LET u == _unloadClasses(g)
         IN  IF u.crash \/ ~u.jvmHandle THEN u
             ELSE IF u.javaVM # "NULL"
             THEN [u EXCEPT !.jvm = "destroyed", !.javaVM = "NULL",
                            !.jvmHandle = FALSE]
             ELSE [u EXCEPT !.jvmHandle = FALSE]

\* a teardown that leaves the Java VM alone
Teardown_Never(g) == g

\* the first part of RVPF_CStore_context: the Java VM and the classes.
\* library and classes say whether CStore_openLibrary and _loadClasses
\* succeed; JNI_CreateJavaVM succeeds when the process has no Java VM yet.
\* ok says whether the call goes on to create the context.
ContextRuntime(g, vm, library, classes) ==
    LET given == [g EXCEPT !.javaVM = vm]
        made ==
          IF vm # "NULL" THEN given
          ELSE IF library = "fail" THEN [given EXCEPT !.jvmHandle = FALSE]
          ELSE IF given.jvm = "none"
          THEN [given EXCEPT !.jvmHandle = TRUE, !.javaVM = "created",
                             !.jvm = "running"]
          ELSE [given EXCEPT !.jvmHandle = FALSE]
    IN  IF made.javaVM = "NULL" THEN [g |-> made, ok |-> FALSE]
        ELSE IF made.storeProxyClass THEN [g |-> made, ok |-> TRUE]
        ELSE IF classes = "ok"
        THEN [g |-> [made EXCEPT !.storeProxyClass = TRUE], ok |-> TRUE]
        ELSE [g |-> Teardown(made), ok |-> FALSE]

\* a slot for a new context: not live, and not taken by a call under way
FreeSlots ==
    {s \in ProxySlots :
        /\ ~proxies[s].live
        /\ \A t \in ProxyThreads : proxyThread[t].slot # s}

CanCall(t) ==
    /\ proxyPc = "running"
    /\ t <= proxyThreads
    /\ proxyThread[t].pc = "idle"

\* RVPF_CStore_context, up to _loadClasses
ContextBegin(t) ==
    /\ CanCall(t)
    /\ FreeSlots # {}
    /\ _contexts < MaxCount
    /\ \E library \in {"ok", "fail"}, classes \in {"ok", "fail"} :
          \E r \in {ContextRuntime(ProxyGlobals, proxyVm, library, classes)} :
             /\ SetProxyGlobals(r.g)
             /\ IF r.ok
                THEN /\ proxyThread' =
                          [proxyThread EXCEPT ![t] =
                              [pc |-> "constructed", reg |-> 0,
                               slot |-> CHOOSE s \in FreeSlots : TRUE]]
                     /\ UNCHANGED proxyLast
                ELSE /\ proxyLast' = [name |-> "context", slot |-> 0,
                                      hosted |-> "none"]
                     /\ UNCHANGED proxyThread
    /\ UNCHANGED <<proxyThreads, proxyVm, proxies>>
    /\ ProxyFrame

\* the construction of the hosted proxy, then ++_contexts, the read
ContextCount(t) ==
    /\ proxyPc = "running"
    /\ proxyThread[t].pc = "constructed"
    /\ IF ~_getJNIEnv(ProxyGlobals)
       THEN proxyPc' = "crashed" /\ UNCHANGED proxyThread
       ELSE /\ proxyThread' = [proxyThread EXCEPT ![t].pc = "counted",
                                                  ![t].reg = _contexts]
            /\ UNCHANGED proxyPc
    /\ UNCHANGED <<proxyThreads, proxyVm, _contexts, _javaVM, _jvmHandle,
                   _storeProxyClass, proxyJvm, proxies, proxyLast>>
    /\ ProxyFrame

\* ++_contexts, the write, and the return of the store
ContextReturn(t) ==
    /\ proxyPc = "running"
    /\ proxyThread[t].pc = "counted"
    /\ _contexts' = proxyThread[t].reg + 1
    /\ proxies' = [proxies EXCEPT ![proxyThread[t].slot].live = TRUE]
    /\ proxyLast' = [name |-> "context", slot |-> proxyThread[t].slot,
                     hosted |-> "constructor"]
    /\ proxyThread' = [proxyThread EXCEPT ![t] = IdleThread]
    /\ UNCHANGED <<proxyThreads, proxyVm, _javaVM, _jvmHandle,
                   _storeProxyClass, proxyJvm, proxyPc>>
    /\ ProxyFrame

\* CStore_dispose, up to the read of --_contexts: the assertion, the dispose
\* of the hosted proxy, the release of the context
DisposeBegin(t) ==
    /\ CanCall(t)
    /\ \E s \in ProxySlots :
          /\ proxies[s].live
          /\ \A u \in ProxyThreads : proxyThread[u].slot # s
          /\ IF _contexts <= 0 \/ ~_getJNIEnv(ProxyGlobals)
             THEN /\ proxyPc' = "crashed"
                  /\ UNCHANGED <<proxies, proxyThread>>
             ELSE /\ proxies' = [proxies EXCEPT
                                    ![s] = [live |-> FALSE,
                                            connected |-> FALSE]]
                  /\ proxyThread' =
                        [proxyThread EXCEPT ![t] =
                            [pc |-> "released", reg |-> _contexts,
                             slot |-> s]]
                  /\ UNCHANGED proxyPc
    /\ UNCHANGED <<proxyThreads, proxyVm, _contexts, _javaVM, _jvmHandle,
                   _storeProxyClass, proxyJvm, proxyLast>>
    /\ ProxyFrame

\* --_contexts, the write
DisposeCount(t) ==
    /\ proxyPc = "running"
    /\ proxyThread[t].pc = "released"
    /\ _contexts' = proxyThread[t].reg - 1
    /\ proxyThread' = [proxyThread EXCEPT ![t].pc = "uncounted"]
    /\ UNCHANGED <<proxyThreads, proxyVm, _javaVM, _jvmHandle,
                   _storeProxyClass, proxyJvm, proxies, proxyLast, proxyPc>>
    /\ ProxyFrame

\* if (!_contexts) ...
DisposeReturn(t) ==
    /\ proxyPc = "running"
    /\ proxyThread[t].pc = "uncounted"
    /\ \E g \in {Teardown(ProxyGlobals)} : SetProxyGlobals(g)
    /\ proxyLast' = [name |-> "dispose", slot |-> proxyThread[t].slot,
                     hosted |-> "dispose"]
    /\ proxyThread' = [proxyThread EXCEPT ![t] = IdleThread]
    /\ UNCHANGED <<proxyThreads, proxyVm, proxies>>
    /\ ProxyFrame

\* the method of the hosted proxy that CStore_interrupt calls
InterruptMethod == "disconnect"

\* what a method of the hosted proxy does to the connection
Hosted(method, connected) ==
    CASE method = "connect" -> TRUE
      [] method = "disconnect" -> FALSE
      [] OTHER -> connected

\* CStore_connect, CStore_disconnect, CStore_interrupt: one call of a method
\* of the hosted proxy
ProxyCall(name, method) ==
    /\ \E t \in ProxyThreads : CanCall(t)
    /\ \E s \in ProxySlots :
          /\ proxies[s].live
          /\ \A u \in ProxyThreads : proxyThread[u].slot # s
          /\ IF ~_getJNIEnv(ProxyGlobals)
             THEN proxyPc' = "crashed" /\ UNCHANGED <<proxies, proxyLast>>
             ELSE /\ proxies' =
                       [proxies EXCEPT
                           ![s].connected = Hosted(method, @)]
                  /\ proxyLast' = [name |-> name, slot |-> s,
                                   hosted |-> method]
                  /\ UNCHANGED proxyPc
    /\ UNCHANGED <<proxyThreads, proxyVm, _contexts, _javaVM, _jvmHandle,
                   _storeProxyClass, proxyJvm, proxyThread>>
    /\ ProxyFrame

ProxyConnect == ProxyCall("connect", "connect")

ProxyDisconnect == ProxyCall("disconnect", "disconnect")

ProxyInterrupt == ProxyCall("interrupt", InterruptMethod)

ProxyNext ==
    \/ \E t \in ProxyThreads : ContextBegin(t)
    \/ \E t \in ProxyThreads : ContextCount(t)
    \/ \E t \in ProxyThreads : ContextReturn(t)
    \/ \E t \in ProxyThreads : DisposeBegin(t)
    \/ \E t \in ProxyThreads : DisposeCount(t)
    \/ \E t \in ProxyThreads : DisposeReturn(t)
    \/ ProxyConnect
    \/ ProxyDisconnect
    \/ ProxyInterrupt

(***************************************************************************)
(* The text buffers of the XPVPC client (_addChar) and of the PIPE         *)
(* endpoint (_expandBuffer), byte by byte.  The memory is the block of the *)
(* buffer followed by what lies behind it in the heap; a cell holds a nul, *)
(* a character of text or a byte that is not the buffer's.  realloc       *)
(* leaves the bytes it adds indeterminate; a memset behind the block       *)
(* either overwrites what lies there or ends the process.                  *)
(***************************************************************************)
Cells == 0 .. MemCells - 1

Foreign == "other"

\* realloc(memory, newSize): the old bytes, then the indeterminate ones
Realloc(mem, oldSize, newSize, fill) ==
    [i \in Cells |->
        IF i < oldSize THEN mem[i]
        ELSE IF i < newSize THEN fill[i]
        ELSE Foreign]

Fills(oldSize, newSize) == [oldSize .. newSize - 1 -> {"nul", Foreign}]

\* memset(memory + from, 0, n)
Memset(mem, from, n) ==
    [i \in Cells |-> IF i >= from /\ i < from + n THEN "nul" ELSE mem[i]]

\* strcpy / the store of one character and of the final nul
Copy(mem, from, n) ==
    [i \in Cells |->
        IF i >= from /\ i < from + n THEN "text"
        ELSE IF i = from + n THEN "nul"
        ELSE mem[i]]

NoGrowth == [grew |-> FALSE, oldSize |-> 0, newSize |-> 0,
             after |-> [i \in Cells |-> "nul"]]

\* XPVPC: the growth of _addChar.  outcome is what the memset behind the
\* new block does.
XpGrowth(b, fill, outcome) ==
    LET newSize == b.cap * 2
        moved == Realloc(b.mem, b.cap, newSize, fill)
        zeroed == Memset(moved, newSize, newSize)
    IN  [buf |-> [b EXCEPT !.cap = newSize, !.mem = zeroed],
         crash |-> outcome = "crash",
         growth |-> [grew |-> TRUE, oldSize |-> b.cap, newSize |-> newSize,
                     after |-> zeroed]]

\* XPVPC: _addChar on a context whose status is OK
_addChar(b, fill, outcome) ==
    LET g == IF b.at >= b.cap - 1 THEN XpGrowth(b, fill, outcome)
             ELSE [buf |-> b, crash |-> FALSE, growth |-> NoGrowth]
    IN  [g EXCEPT !.buf = [g.buf EXCEPT !.mem = Copy(g.buf.mem, b.at, 1),
                                        !.at = b.at + 1]]

\* PIPE: the capacity that _expandBuffer gives for a request of n bytes
ExpandedCapacity(b, n) == 2 * (IF n < b.cap THEN b.cap ELSE n)

\* PIPE: _expandBuffer(buffer, n)
_expandBuffer(b, n, fill) ==
    IF n > b.cap - b.at
    THEN LET newSize == ExpandedCapacity(b, n)
             moved == Realloc(b.mem, b.cap, newSize, fill)
             zeroed == Memset(moved, b.cap, newSize - b.cap)
         IN  [buf |-> [b EXCEPT !.cap = newSize, !.mem = zeroed],
              crash |-> FALSE,
              growth |-> [grew |-> TRUE, oldSize |-> b.cap,
                          newSize |-> newSize, after |-> zeroed]]
    ELSE [buf |-> b, crash |-> FALSE, growth |-> NoGrowth]

\* PIPE: _charToBuffer
_charToBuffer(b, fill) ==
    LET g == _expandBuffer(b, 2, fill)
    IN  [g EXCEPT !.buf = [g.buf EXCEPT !.mem = Copy(g.buf.mem, b.at, 1),
                                        !.at = b.at + 1]]

\* PIPE: _stringToBuffer of a text of n characters
_stringToBuffer(b, n, fill) ==
    LET g == _expandBuffer(b, n + 1, fill)
    IN  [g EXCEPT !.buf = [g.buf EXCEPT !.mem = Copy(g.buf.mem, b.at, n),
                                        !.at = b.at + n]]

TextFrame == UNCHANGED <<mapVars, pipeVars, xpVars, elVars, streamVars,
    codecVars, readerVars, getterVars, storeVars, proxyVars, encVars>>

\* a buffer as calloc gives it
TextBuf0 ==
    [cap |-> InitialCapacity, at |-> 0,
     mem |-> [i \in Cells |-> IF i < InitialCapacity THEN "nul" ELSE Foreign]]

TextInit ==
    /\ textKind \in {"xpvpc", "pipe"}
    /\ textBuf = TextBuf0
    /\ textLast = [op |-> "none", growth |-> NoGrowth]
    /\ textPc = "running"

TextIdle ==
    /\ textKind = "xpvpc"
    /\ textBuf = TextBuf0
    /\ textLast = [op |-> "none", growth |-> NoGrowth]
    /\ textPc = "running"

TextReturn(op, r) ==
    /\ textBuf' = IF r.crash THEN textBuf ELSE r.buf
    /\ textPc' = IF r.crash THEN "crashed" ELSE "running"
    /\ textLast' = IF r.crash THEN textLast
                   ELSE [op |-> op, growth |-> r.growth]
    /\ UNCHANGED textKind
    /\ TextFrame

XpAddChar ==
    /\ textKind = "xpvpc"
    /\ textPc = "running"
    /\ \/ textBuf.at < textBuf.cap - 1
       \/ 4 * textBuf.cap <= MemCells
    /\ \E fill \in IF textBuf.at >= textBuf.cap - 1
                   THEN Fills(textBuf.cap, 2 * textBuf.cap)
                   ELSE Fills(0, 0),
          outcome \in IF textBuf.at >= textBuf.cap - 1
                      THEN {"written", "crash"} ELSE {"written"} :
          \E r \in {_addChar(textBuf, fill, outcome)} :
             TextReturn("addChar", r)

PipeCharToBuffer ==
    /\ textKind = "pipe"
    /\ textPc = "running"
    /\ \/ 2 <= textBuf.cap - textBuf.at
       \/ ExpandedCapacity(textBuf, 2) <= MemCells
    /\ \E fill \in IF 2 > textBuf.cap - textBuf.at
                   THEN Fills(textBuf.cap, ExpandedCapacity(textBuf, 2))
                   ELSE Fills(0, 0) :
          \E r \in {_charToBuffer(textBuf, fill)} :
             TextReturn("charToBuffer", r)

PipeStringToBuffer ==
    /\ textKind = "pipe"
    /\ textPc = "running"
    /\ \E n \in 0 .. MaxAdded :
          /\ \/ n + 1 <= textBuf.cap - textBuf.at
             \/ ExpandedCapacity(textBuf, n + 1) <= MemCells
          /\ \E fill \in IF n + 1 > textBuf.cap - textBuf.at
                         THEN Fills(textBuf.cap,
                                    ExpandedCapacity(textBuf, n + 1))
                         ELSE Fills(0, 0) :
                \E r \in {_stringToBuffer(textBuf, n, fill)} :
                   TextReturn("stringToBuffer", r)

\* the buffer is used again from its start (the memory stays as it is)
TextReset ==
    /\ textPc = "running"
    /\ textBuf.at > 0
    /\ textBuf' = [textBuf EXCEPT !.at = 0]
    /\ textLast' = [op |-> "reset", growth |-> NoGrowth]
    /\ UNCHANGED <<textKind, textPc>>
    /\ TextFrame

TextNext ==
    \/ XpAddChar
    \/ PipeCharToBuffer
    \/ PipeStringToBuffer
    \/ TextReset

(***************************************************************************)
(* The encoding of the text of an element or of an attribute by the XPVPC  *)
(* client (_addEncoded, _addLong), on bytes.  A text is the sequence of    *)
(* its bytes, 1 .. 255; whether a char of the build is signed is up to the *)
(* build.                                                                  *)
(***************************************************************************)
LT == 60
GT == 62
AMP == 38
QUOT == 34
APOS == 39
TAB == 9
LF == 10
CR == 13
SPACE == 32
ZERO == 48

\* the value of a char that holds the byte b
CharValue(b, signedChar) == IF signedChar /\ b >= 128 THEN b - 256 ELSE b

\* isspace((unsigned char) c) in the C locale
IsSpaceByte(b) == b \in {TAB, LF, 11, 12, CR, SPACE}

RECURSIVE TrimLeft(_)
TrimLeft(bytes) ==
    IF bytes # <<>> /\ IsSpaceByte(Head(bytes)) THEN TrimLeft(Tail(bytes))
    ELSE bytes

RECURSIVE TrimRight(_)
TrimRight(bytes) ==
    IF bytes # <<>> /\ IsSpaceByte(bytes[Len(bytes)])
    THEN TrimRight(SubSeq(bytes, 1, Len(bytes) - 1))
    ELSE bytes

\* n / 10 and n % 10 of C, which truncate towards zero
CDiv10(n) == IF n >= 0 THEN n \div 10 ELSE 0 - ((0 - n) \div 10)
CMod10(n) == IF n >= 0 THEN n % 10 ELSE 0 - ((0 - n) % 10)

\* _addLong: the digits are produced from the last one while the rest is
\* positive, then added in reverse
RECURSIVE LongDigits(_)
LongDigits(n) ==
    IF CDiv10(n) > 0 THEN LongDigits(CDiv10(n)) \o <<CMod10(n) + ZERO>>
    ELSE <<CMod10(n) + ZERO>>

_addLong(n) == LongDigits(n)

\* the decimal digits of a natural number
RECURSIVE DecimalBytes(_)
DecimalBytes(n) ==
    IF n >= 10 THEN DecimalBytes(n \div 10) \o <<(n % 10) + ZERO>>
    ELSE <<n + ZERO>>

EntityLt == <<AMP, 108, 116, 59>>
EntityGt == <<AMP, 103, 116, 59>>
EntityAmp == <<AMP, 97, 109, 112, 59>>
EntityQuot == <<AMP, 113, 117, 111, 116, 59>>
EntityApos == <<AMP, 97, 112, 111, 115, 59>>

\* _addEncoded: what is added for one byte of the trimmed text
EncodedByte(b, quote, signedChar) ==
    CASE b = LT -> EntityLt
      [] b = GT -> EntityGt
      [] b = AMP -> EntityAmp
      [] b = QUOT -> IF quote = b THEN EntityQuot ELSE <<b>>
      [] b = APOS -> IF quote = b THEN EntityApos ELSE <<b>>
      [] b \in {TAB, LF, CR} -> <<b>>
      [] OTHER ->
           IF CharValue(b, signedChar) < SPACE
           THEN <<AMP, 35>> \o _addLong(CharValue(b, signedChar)) \o <<59>>
           ELSE <<b>>

RECURSIVE EncodedBytes(_, _, _)
EncodedBytes(bytes, quote, signedChar) ==
    IF bytes = <<>> THEN <<>>
    ELSE EncodedByte(Head(bytes), quote, signedChar)
         \o EncodedBytes(Tail(bytes), quote, signedChar)

\* _addEncoded on a context whose status is OK
_addEncoded(bytes, quote, signedChar) ==
    EncodedBytes(TrimRight(TrimLeft(bytes)), quote, signedChar)

\* the bytes the texts are made of
TextBytes == {LT, GT, AMP, QUOT, APOS, TAB, 11, 1, 31, SPACE, 65, 127, 195}

RECURSIVE TextsUpTo(_)
TextsUpTo(n) ==
    IF n = 0 THEN {<<>>}
    ELSE LET shorter == TextsUpTo(n - 1)
         IN  shorter \cup {Append(t, b) : t \in shorter, b \in TextBytes}

\* the quote of an attribute of the login, none for the text of an element
Quotes == {0, APOS}

NoEncoded == [done |-> FALSE, bytes |-> <<>>]

EncFrame == UNCHANGED <<mapVars, pipeVars, xpVars, elVars, streamVars,
    codecVars, readerVars, getterVars, storeVars, proxyVars, textVars>>

EncInit ==
    /\ encArg \in [bytes : TextsUpTo(MaxEncoded), quote : Quotes,
                   signedChar : BOOLEAN]
    /\ encOut = NoEncoded

EncIdle ==
    /\ encArg = [bytes |-> <<>>, quote |-> 0, signedChar |-> FALSE]
    /\ encOut = NoEncoded

AddEncoded ==
    /\ ~encOut.done
    /\ encOut' = [done |-> TRUE,
                  bytes |-> _addEncoded(encArg.bytes, encArg.quote,
                                        encArg.signedChar)]
    /\ UNCHANGED encArg
    /\ EncFrame

EncNext == AddEncoded

(***************************************************************************)
(* The specifications.                                                     *)
(***************************************************************************)
\* a component that is not running stays in one initial state
MapIdle ==
    /\ capacity = HandlesMap_create(0)
    /\ threshold = LoadThreshold(HandlesMap_create(0))
    /\ table = EmptyTable(HandlesMap_create(0))
    /\ size = 0
    /\ shadow = [k \in Keys |-> 0]

InitMap == MapInit /\ PipeInit /\ XpInit /\ ElIdle /\ StreamIdle /\
    CodecIdle /\ ReaderIdle /\ GetterIdle /\ StoreIdle /\ ProxyIdle /\
    TextIdle /\ EncIdle
InitPipe == PipeInit /\ MapIdle /\ XpInit /\ ElIdle /\ StreamIdle /\
    CodecIdle /\ ReaderIdle /\ GetterIdle /\ StoreIdle /\ ProxyIdle /\
    TextIdle /\ EncIdle
InitXpvpc == XpInit /\ MapIdle /\ PipeInit /\ ElIdle /\ StreamIdle /\
    CodecIdle /\ ReaderIdle /\ GetterIdle /\ StoreIdle /\ ProxyIdle /\
    TextIdle /\ EncIdle

SpecMap == InitMap /\ [][MapNext]_vars
SpecPipe == InitPipe /\ [][PipeNext]_vars
SpecXpvpc == InitXpvpc /\ [][XpNext]_vars

InitStream == StreamInit /\ MapIdle /\ PipeInit /\ XpInit /\ ElIdle /\
    CodecIdle /\ ReaderIdle /\ GetterIdle /\ StoreIdle /\ ProxyIdle /\
    TextIdle /\ EncIdle

SpecStream == InitStream /\ [][StreamNext]_vars

InitCodec == CodecInit /\ MapIdle /\ PipeInit /\ XpInit /\ ElIdle /\
    StreamIdle /\ ReaderIdle /\ GetterIdle /\ StoreIdle /\ ProxyIdle /\
    TextIdle /\ EncIdle

SpecCodec == InitCodec /\ [][CodecNext]_vars

InitElement == ElInit /\ MapIdle /\ PipeInit /\ XpInit /\ StreamIdle /\
    CodecIdle /\ ReaderIdle /\ GetterIdle /\ StoreIdle /\ ProxyIdle /\
    TextIdle /\ EncIdle

SpecElement == InitElement /\ [][ElNext]_vars

InitReader == ReaderInit /\ MapIdle /\ PipeInit /\ XpInit /\ ElIdle /\
    StreamIdle /\ CodecIdle /\ GetterIdle /\ StoreIdle /\ ProxyIdle /\
    TextIdle /\ EncIdle

SpecReader == InitReader /\ [][ReaderNext]_vars

InitGetter == GetterInit /\ MapIdle /\ PipeInit /\ XpInit /\ ElIdle /\
    StreamIdle /\ CodecIdle /\ ReaderIdle /\ StoreIdle /\ ProxyIdle /\
    TextIdle /\ EncIdle

SpecGetter == InitGetter /\ [][GetterNext]_vars

InitStore == StoreInit /\ MapIdle /\ PipeInit /\ XpInit /\ ElIdle /\
    StreamIdle /\ CodecIdle /\ ReaderIdle /\ GetterIdle /\ ProxyIdle /\
    TextIdle /\ EncIdle

SpecStore == InitStore /\ [][StoreNext]_vars

InitProxy == ProxyInit /\ MapIdle /\ PipeInit /\ XpInit /\ ElIdle /\
    StreamIdle /\ CodecIdle /\ ReaderIdle /\ GetterIdle /\ StoreIdle /\
    TextIdle /\ EncIdle

SpecProxy == InitProxy /\ [][ProxyNext]_vars

InitText == TextInit /\ MapIdle /\ PipeInit /\ XpInit /\ ElIdle /\
    StreamIdle /\ CodecIdle /\ ReaderIdle /\ GetterIdle /\ StoreIdle /\
    ProxyIdle /\ EncIdle

SpecText == InitText /\ [][TextNext]_vars

InitEncode == EncInit /\ MapIdle /\ PipeInit /\ XpInit /\ ElIdle /\
    StreamIdle /\ CodecIdle /\ ReaderIdle /\ GetterIdle /\ StoreIdle /\
    ProxyIdle /\ TextIdle

SpecEncode == InitEncode /\ [][EncNext]_vars

(***************************************************************************)
(* Handles map: properties.                                                *)
(***************************************************************************)

\* C1: after any sequence of put and remove, get(k) is the value of the most
\* recent put(k, v) not followed by remove(k), and 0 if k was never put or
\* has been removed since; removing a key never changes get of another key.
C1_GetReturnsLatestPut ==
    \A k \in Keys : HandlesMap_get(k) = shadow[k]

\* C2: after any sequence of put and remove, HandlesMap_size is the number of
\* entries reachable in the table and the number of keys present, so the
\* index == mapSize assertions of HandlesMap_keys and HandlesMap_values hold.
C2_SizeIsEntryCount ==
    /\ HandlesMap_size = Len(HandlesMap_keys)
    /\ HandlesMap_size = Len(HandlesMap_values)
    /\ HandlesMap_size = Cardinality({k \in Keys : shadow[k] # 0})

(***************************************************************************)
(* PIPE engine responses: properties.                                      *)
(***************************************************************************)
HasEnded == ended # <<>>
EndedSummary == out[1].summary
EndedExtras == ended[1].results
EndedSeed == ended[1].result

\* C3: the summary written by endEngineRequest is -1 when the request has
\* neither a result value nor any extra result, the number of extra results
\* held when the seed result was cleared, and 1 + that number otherwise.
C3_SummaryValue ==
    HasEnded =>
        /\ out[1] = SummaryLine(ended[1].requestID, EndedSummary)
        /\ EndedSummary =
              IF (EndedSeed = <<>> \/ EndedSeed[1].value = NULL)
                 /\ EndedExtras = <<>>
              THEN -1
              ELSE IF EndedSeed = <<>>
              THEN Len(EndedExtras)
              ELSE 1 + Len(EndedExtras)

\* C4: when clearEngineResults was called and nothing was added after it,
\* endEngineRequest writes exactly the line "<requestID> -1" and no
\* PointValue line, whatever had been set or added before the clear.
C4_ClearedRequestEndsMinusOne ==
    (HasEnded /\ ended[1].clearedLast) =>
        out = <<SummaryLine(ended[1].requestID, -1)>>

\* the lines after the summary line
EndedResultLines == SubSeq(out, 2, Len(out))
EndedExtraLines == [i \in 1 .. Len(EndedExtras) |-> PointValueLine(EndedExtras[i])]

\* C5 as stated: when the summary is greater than 0 the following lines are
\* the extra results in the order they were added, then the seed result if
\* and only if it still carries a value or a state.
C5_SeedOnlyWithValueOrState ==
    (HasEnded /\ EndedSummary > 0) =>
        EndedResultLines =
            EndedExtraLines
            \o (IF EndedSeed # <<>>
                    /\ (EndedSeed[1].value # NULL \/ EndedSeed[1].state # NULL)
                 THEN <<PointValueLine(EndedSeed[1])>>
                 ELSE <<>>)

\* C5 as amended: when the summary is greater than 0 the following lines are
\* the extra results held, in the order they were added, then the seed
\* result if and only if it has not been cleared, whether or not it carries
\* a value or a state.
C5_ExtrasThenUnclearedSeed ==
    (HasEnded /\ EndedSummary > 0) =>
        EndedResultLines =
            EndedExtraLines
            \o (IF EndedSeed # <<>> THEN <<PointValueLine(EndedSeed[1])>> ELSE <<>>)

\* a response with two extra results followed by a seed that carries neither
\* a value nor a state
C5_Witness ==
    /\ HasEnded
    /\ EndedSummary = 3
    /\ Len(EndedExtras) = 2
    /\ EndedExtras[1] # EndedExtras[2]
    /\ EndedSeed # <<>>
    /\ EndedSeed[1].value = NULL
    /\ EndedSeed[1].state = NULL

(***************************************************************************)
(* XPVPC client: properties.                                               *)
(***************************************************************************)
XpVerifs == {lastOp.verifs[i] : i \in 1 .. Len(lastOp.verifs)}
BeginsWithDone(line) == line.kind \in {"ack", "cutack", "badend"}
CarriesRef(line) == line.kind \in {"ack", "cutack"}
Delivered(line) ==
    line.kind \in {"ack", "nomatch", "partial", "badend", "overlong"}

\* C6 as stated: after a document with id N is transmitted, one response line
\* is read; the status stays OK only if the line begins with <done ref=' and
\* carries ref = N, a different ref latches MISMATCHED_ID, and every line
\* that does not begin with <done ref=' latches UNEXPECTED_RESPONSE.
C6_AckDecidesStatus ==
    \A v \in XpVerifs :
        v.transmitted =>
            /\ Delivered(v.line) => v.read = 1
            /\ v.after = RVPF_XPVPC_OK =>
                  CarriesRef(v.line) /\ v.line.ref = v.expected
            /\ (CarriesRef(v.line) /\ v.line.ref # v.expected) =>
                  v.after = RVPF_XPVPC_MISMATCHED_ID
            /\ (Delivered(v.line) /\ ~BeginsWithDone(v.line)) =>
                  v.after = RVPF_XPVPC_UNEXPECTED_RESPONSE

\* C6 as amended: after a document with id N is transmitted, one response
\* line is read; a line that fills the receive buffer latches INTERNAL_ERROR
\* whatever it holds; otherwise the status stays OK only if the line begins
\* with <done ref=' and carries ref = N, a well-formed line with a different
\* ref latches MISMATCHED_ID, and a line that does not begin with
\* <done ref=', or whose number is not followed by '/>, latches
\* UNEXPECTED_RESPONSE; the call ends with the status of its last
\* verification.
C6_AckDecidesStatusOfShortLines ==
    /\ \A v \in XpVerifs :
          v.transmitted =>
             /\ Delivered(v.line) => v.read = 1
             /\ v.after = RVPF_XPVPC_OK =>
                   CarriesRef(v.line) /\ v.line.ref = v.expected
             /\ (CarriesRef(v.line) /\ v.line.ref # v.expected) =>
                   v.after = RVPF_XPVPC_MISMATCHED_ID
             /\ v.line.kind = "overlong" =>
                   v.after = RVPF_XPVPC_INTERNAL_ERROR
             /\ v.line.kind \in {"nomatch", "partial", "badend"} =>
                   v.after = RVPF_XPVPC_UNEXPECTED_RESPONSE
    /\ (lastOp.verifs # <<>> /\ lastOp.name # "crash") =>
          ctx.status = lastOp.verifs[Len(lastOp.verifs)].after

C6_Witness ==
    /\ lastOp.name = "login"
    /\ Len(lastOp.verifs) = 2
    /\ lastOp.verifs[1].transmitted
    /\ lastOp.verifs[1].line = [kind |-> "ack", ref |-> 1]
    /\ lastOp.verifs[1].after = RVPF_XPVPC_OK
    /\ lastOp.verifs[2].transmitted
    /\ lastOp.verifs[2].expected = 2
    /\ lastOp.verifs[2].line = [kind |-> "ack", ref |-> 1]
    /\ ctx.status = RVPF_XPVPC_MISMATCHED_ID

\* the id attribute of a transmitted document
DocId(doc) ==
    SelectSeq(doc, LAMBDA item : item.tag \in {"messages", "login"})[1].id
\* the number of value elements of a transmitted document
DocElements(doc) ==
    Len(SelectSeq(doc, LAMBDA item :
                          item.tag \in {"point-value", "deleted-value"}))

\* C7 as stated: the id counter starts at 0 and is incremented once per
\* document, so while no operation has failed the k-th document transmitted
\* carries id k.
C7_KthDocumentCarriesIdK ==
    ghost.nofail => \A k \in 1 .. Len(wire) : DocId(wire[k]) = k

\* C7 as amended: the id counter starts at 0 and is incremented once per
\* document opened, so while no operation has failed and no pending batch
\* has been dropped by clearError, the k-th document transmitted carries
\* id k and the counter is the number of documents opened so far.
C7_KthDocumentCarriesIdKUnlessDropped ==
    (ghost.nofail /\ ~ghost.discarded) =>
        /\ \A k \in 1 .. Len(wire) : DocId(wire[k]) = k
        /\ ctx.id = Len(wire) + (IF ctx.pending > 0 THEN 1 ELSE 0)

C7_Witness ==
    /\ ghost.nofail
    /\ ~ghost.discarded
    /\ wire = <<(<<Login(1)>>),
                (<<MessagesOpen(2), Element(XpNull), Element(XpNull),
                   MessagesClose>>)>>

\* the items of a text from the first document start on
FromStart(text) ==
    IF text # <<>> /\ text[1] = Residue THEN Tail(text) ELSE text
IsElement(item) == item.tag \in {"point-value", "deleted-value"}
\* a batch that is open: its start and the elements accumulated so far
IsOpenBatch(text, id, n) ==
    /\ Len(text) = n + 1
    /\ text[1] = MessagesOpen(id)
    /\ \A i \in 2 .. Len(text) : IsElement(text[i])
\* a transmitted batch: one start, at least one element, one end
IsClosedBatch(doc) ==
    /\ Len(doc) >= 3
    /\ doc[Len(doc)] = MessagesClose
    /\ IsOpenBatch(SubSeq(doc, 1, Len(doc) - 1), doc[1].id, Len(doc) - 2)
IsLogin(doc) == Len(doc) = 1 /\ doc[1].tag = "login"
NewDocuments == SubSeq(wire', Len(wire) + 1, Len(wire'))
TransmittedCount(verifs) ==
    Cardinality({i \in 1 .. Len(verifs) : verifs[i].transmitted})

\* what holds of the text, of the documents transmitted and of the last call
C8_Accumulates ==
    /\ IF ctx.pending > 0
       THEN IsOpenBatch(FromStart(ctx.text), ctx.id, ctx.pending)
       ELSE FromStart(ctx.text) = <<>>
    /\ \A k \in 1 .. Len(wire) :
          IsClosedBatch(FromStart(wire[k])) \/ IsLogin(FromStart(wire[k]))
    /\ \A v \in XpVerifs :
          /\ (v.transmitted /\ Delivered(v.line)) => v.read = 1
          /\ ~v.transmitted => v.read = 0
\* what holds of every call on the context
C8_OnlyFlushTransmits ==
    xpPc = "live" =>
    /\ Len(wire') >= Len(wire) /\ SubSeq(wire', 1, Len(wire)) = wire
    /\ Len(NewDocuments) = TransmittedCount(lastOp'.verifs)
    /\ lastOp'.read <= Len(NewDocuments)
    /\ \A k \in 1 .. Len(NewDocuments) :
          IsClosedBatch(FromStart(NewDocuments[k])) =>
             /\ k = 1
             /\ \/ /\ lastOp'.name \in {"flush", "login", "close", "dispose",
                                        "setAutoFlush", "crash"}
                   /\ ctx.pending > 0
                   /\ NewDocuments[k] = Append(ctx.text, MessagesClose)
                \/ /\ lastOp'.name = "sendValue"
                   /\ AutoFlushDue(_autoFlush, ctx.pending + 1)
                   /\ DocElements(NewDocuments[k]) = ctx.pending + 1
                   /\ ctx.pending > 0 =>
                         SubSeq(NewDocuments[k], 1, Len(ctx.text)) = ctx.text
    /\ (lastOp'.name = "flush" /\ ctx.pending = 0) =>
          /\ wire' = wire
          /\ lastOp'.read = 0
          /\ lastOp'.verifs = <<>>
    /\ lastOp'.name \in {"open", "clearError"} => wire' = wire

SendValueAccepted ==
    /\ lastOp'.name = "sendValue"
    /\ ~rvpf_xpvpc_failed(ctx)
    /\ ctx.open
    /\ ctx'.status # RVPF_XPVPC_ILLEGAL_ARG

C9_AutoFlushStep ==
    /\ (SendValueAccepted /\ _autoFlush >= 1
        /\ ctx.pending + 1 >= _autoFlush) =>
          /\ Len(lastOp'.verifs) = 1
          /\ lastOp'.verifs[1].expected = ctx'.id
          /\ ctx'.pending = 0
          /\ lastOp'.verifs[1].transmitted =>
                /\ Len(NewDocuments) = 1
                /\ IsClosedBatch(FromStart(NewDocuments[1]))
                /\ DocElements(NewDocuments[1]) = ctx.pending + 1
    /\ (lastOp'.name = "sendValue" /\ lastOp'.ret = RVPF_XPVPC_OK
        /\ _autoFlush >= 1) =>
          ctx'.pending < _autoFlush
    /\ (lastOp'.name = "sendValue" /\ _autoFlush < 1) =>
          /\ wire' = wire
          /\ lastOp'.verifs = <<>>
          /\ lastOp'.read = 0

\* C9: with a threshold n >= 1 in effect, the sendValue call that brings the
\* pending count to n closes the batch, transmits it and verifies its
\* acknowledgement before it returns, so the pending count is below n
\* whenever sendValue returns OK; with a threshold below 1 sendValue never
\* flushes.
C9_AutoFlushAtThreshold == [][C9_AutoFlushStep]_vars

C9_Witness ==
    /\ lastOp.name = "sendValue"
    /\ lastOp.ret = RVPF_XPVPC_OK
    /\ _autoFlush = 2
    /\ Len(lastOp.verifs) = 1
    /\ lastOp.verifs[1].transmitted
    /\ lastOp.verifs[1].after = RVPF_XPVPC_OK
    /\ ctx.pending = 0
    /\ wire # <<>>
    /\ DocElements(wire[Len(wire)]) = 2

C10_OutOfOrderStep ==
    /\ (lastOp'.name \in {"sendValue", "flush"} /\ ctx.open
        /\ ~ghost.loggedIn) =>
          lastOp'.ret = RVPF_XPVPC_ILLEGAL_STATE
    /\ (lastOp'.name = "open" /\ ctx.open) =>
          lastOp'.ret = RVPF_XPVPC_ILLEGAL_STATE
    /\ (lastOp'.name \in {"sendValue", "login", "flush"} /\ ~ctx.open) =>
          lastOp'.ret = RVPF_XPVPC_ILLEGAL_STATE

\* C10 as stated: a call made outside the order create, open, login,
\* sendValue/flush, close, dispose returns ILLEGAL_STATE: sendValue or flush
\* on an open context on which no login has succeeded, open on an open
\* context, and sendValue, login or flush on a context that is not open.
C10_OutOfOrderIsIllegalState == [][C10_OutOfOrderStep]_vars

C10_OpenStateStep ==
    /\ (lastOp'.name \in {"sendValue", "login", "flush"} /\ ~ctx.open
        /\ ~rvpf_xpvpc_failed(ctx)) =>
          /\ lastOp'.ret = RVPF_XPVPC_ILLEGAL_STATE
          /\ ctx'.status = RVPF_XPVPC_ILLEGAL_STATE
    /\ (lastOp'.name = "open" /\ ctx.open) =>
          /\ lastOp'.ret = RVPF_XPVPC_ILLEGAL_STATE
          /\ ctx'.status = RVPF_XPVPC_ILLEGAL_STATE
    /\ (lastOp'.name \in {"sendValue", "login", "flush"}
        /\ rvpf_xpvpc_failed(ctx)) =>
          /\ lastOp'.ret = rvpf_xpvpc_status(ctx)
          /\ ctx' = ctx
    /\ (lastOp'.name \in {"sendValue", "login", "flush"} /\ ctx.open
        /\ ~rvpf_xpvpc_failed(ctx)) =>
          lastOp'.ret # RVPF_XPVPC_ILLEGAL_STATE
    /\ (lastOp'.name = "close" /\ ~ctx.open) =>
          lastOp'.ret = RVPF_XPVPC_OK

\* C10 as amended: only the open state is checked.  sendValue, login and
\* flush on a context that is not failed and not open, and open on an open
\* context, return ILLEGAL_STATE and latch it; on a failed context sendValue,
\* login and flush return the latched status and change nothing; on an open
\* context that is not failed they never return ILLEGAL_STATE, whether or
\* not a login has succeeded; close on a context that is not open returns OK.
C10_OnlyOpenStateIsChecked == [][C10_OpenStateStep]_vars

C10_Witness ==
    /\ lastOp.name = "flush"
    /\ lastOp.ret = RVPF_XPVPC_OK
    /\ ctx.open
    /\ ~ghost.loggedIn
    /\ Len(lastOp.verifs) = 1
    /\ lastOp.verifs[1].transmitted
    /\ lastOp.verifs[1].after = RVPF_XPVPC_OK

(***************************************************************************)
(* C11: on a context that is neither failed nor open, sendValue, login and *)
(* flush each return ILLEGAL_STATE, transmit nothing, read nothing, and    *)
(* leave the document id counter and the pending count as they were.       *)
(***************************************************************************)
C11_NotOpenStep ==
    (/\ lastOp'.name \in {"sendValue", "login", "flush"}
     /\ xpPc = "live"
     /\ ~rvpf_xpvpc_failed(ctx)
     /\ ~ctx.open)
    => /\ lastOp'.ret = RVPF_XPVPC_ILLEGAL_STATE
       /\ wire' = wire
       /\ lastOp'.read = 0
       /\ ctx'.id = ctx.id
       /\ ctx'.pending = ctx.pending
       /\ ctx'.text = ctx.text

C11_NotOpenIsIllegalState == [][C11_NotOpenStep]_vars

\* a flush refused on a closed context that still holds a pending element
C11_Witness ==
    /\ lastOp.name = "flush"
    /\ lastOp.ret = RVPF_XPVPC_ILLEGAL_STATE
    /\ ctx.status = RVPF_XPVPC_ILLEGAL_STATE
    /\ ~ctx.open
    /\ ctx.pending = 1
    /\ ctx.id = 1
    /\ wire = <<>>

(***************************************************************************)
(* C12: once the context is failed (its status or its stream's status is   *)
(* not OK), every later login, sendValue and flush returns a status that   *)
(* is not OK, transmits and reads nothing, and leaves the id counter and   *)
(* the pending count as they were, until clearError is called.             *)
(***************************************************************************)
XpIsFailed(c) == c.status # RVPF_XPVPC_OK \/ c.sslStatus # RVPF_SSL_OK

XpRefused ==
    /\ lastOp'.ret # RVPF_XPVPC_OK
    /\ wire' = wire
    /\ lastOp'.read = 0
    /\ lastOp'.verifs = <<>>
    /\ ctx'.id = ctx.id
    /\ ctx'.pending = ctx.pending

\* as stated: the failure lasts from the call that fails until clearError
C12_LatchedStep ==
    (/\ lastOp'.name \in {"sendValue", "login", "flush"}
     /\ xpPc = "live"
     /\ ghost.latched)
    => XpRefused

C12_FailedStep ==
    /\ (/\ lastOp'.name \in {"sendValue", "login", "flush"}
        /\ xpPc = "live"
        /\ XpIsFailed(ctx))
       => (XpRefused /\ XpIsFailed(ctx') /\ ctx'.status = ctx.status
           /\ ctx'.sslStatus = ctx.sslStatus)
    /\ (xpPc = "live" /\ XpIsFailed(ctx) /\ ~XpIsFailed(ctx'))
       => \/ lastOp'.name \in {"clearError", "close", "dispose"}
          \/ lastOp'.name = "open" /\ ~ctx.open

RECURSIVE WireElements(_)
WireElements(docs) ==
    IF docs = <<>> THEN 0
    ELSE DocElements(docs[1]) + WireElements(Tail(docs))

ClosesPending ==
    /\ lastOp'.name \in {"close", "dispose"}
    /\ xpPc = "live"
    /\ ctx.open
    /\ ~XpIsFailed(ctx)
    /\ ctx.pending > 0

\* the batch goes out whole, closed (after what a rejected response may have
\* left in the buffer), and is verified once against its id
ClosingTransmitted ==
    /\ wire' = Append(wire, Append(ctx.text, MessagesClose))
    /\ IsClosedBatch(FromStart(wire'[Len(wire')]))
    /\ DocElements(wire'[Len(wire')]) = ctx.pending
    /\ Len(lastOp'.verifs) = 1
    /\ lastOp'.verifs[1].transmitted
    /\ lastOp'.verifs[1].expected = ctx.id
    /\ lastOp'.read = IF Delivered(lastOp'.verifs[1].line) THEN 1 ELSE 0

\* as stated, granting that the stream carries the document and the server
\* acknowledges it
C14_AsStatedStep ==
    (ClosesPending
     /\ Len(lastOp'.verifs) = 1
     /\ lastOp'.verifs[1].transmitted
     /\ lastOp'.verifs[1].after = RVPF_XPVPC_OK)
    => /\ ClosingTransmitted
       /\ ~ctx'.open
       /\ ghost'.accepted = WireElements(wire')

C14_CloseStep ==
    ClosesPending
    => /\ ~ctx'.open
       /\ ctx'.pending = 0
       /\ Len(lastOp'.verifs) = 1
       /\ IF lastOp'.verifs[1].transmitted
          THEN /\ ClosingTransmitted
               /\ (ghost.nofail /\ ~ghost.discarded)
                  => ghost'.accepted = WireElements(wire')
          ELSE /\ wire' = wire
               /\ lastOp'.read = 0

ElChildTags == [i \in 1 .. Len(elText.children) |-> elText.children[i].tag]

C15_DeletedOnlyForSentinel ==
    elText # NoElement
    => /\ (elText.tag = "deleted-value")
          <=> (elArgs.state.addr = _deletedState.addr)
       /\ elText.tag \in {"deleted-value", "point-value"}
       /\ elText.tag = "deleted-value"
          => elText.children = <<Child("point", elArgs.point),
                                 Child("stamp", elArgs.stamp)>>
       /\ elText.tag = "point-value"
          => /\ SubSeq(ElChildTags, 1, 2) = <<"point", "stamp">>
             /\ ("state" \in {ElChildTags[i] : i \in 1 .. Len(ElChildTags)})
                <=> (elArgs.state # XpNull)

\* the sentinel gave a deleted-value although a value was passed with it
C15_Witness ==
    /\ elArgs.state = _deletedState
    /\ elArgs.value # XpNull
    /\ elText.tag = "deleted-value"
    /\ Len(elText.children) = 2

(***************************************************************************)
(* C13: once an operation on a stream has failed (status not OK), every    *)
(* later open, send, receive, setTrust and setCertificate on it            *)
(* short-circuits: it makes no network call and leaves the latched status  *)
(* as it is, until clearError is called.                                   *)
(***************************************************************************)
StreamIsFailed(s) == s.status # RVPF_SSL_OK

C13_AsStatedStep ==
    (/\ StreamIsFailed(stream)
     /\ streamLast'.name
           \in {"open", "send", "receive", "setTrust", "setCertificate"})
    => /\ streamLast'.io = 0
       /\ stream'.status = stream.status

C13_FailedStep ==
    /\ (/\ StreamIsFailed(stream)
        /\ streamLast'.name
              \in {"send", "receive", "setTrust", "setCertificate"})
       => /\ streamLast'.io = 0
          /\ streamLast'.ret = 0
          /\ stream' = stream
    /\ (StreamIsFailed(stream) /\ streamLast'.name = "open")
       => IF stream.open
          THEN /\ stream'.status = RVPF_SSL_ILLEGAL_STATE
               /\ streamLast'.io = 0
          ELSE /\ streamLast'.io = 0 <=> stream'.status = RVPF_SSL_BAD_ADDRESS
               /\ stream'.open <=> stream'.status = RVPF_SSL_OK
    /\ (StreamIsFailed(stream) /\ stream'.status # stream.status)
       => streamLast'.name \in {"clearError", "open", "close"}
    /\ (StreamIsFailed(stream) /\ ~StreamIsFailed(stream'))
       => streamLast'.name \in {"clearError", "open"}

HasParsed == pvOut # NotParsed
ParsedAsWritten ==
    pvOut = Parsed("ok", pvIn.pointName, pvIn.stamp, pvIn.state, pvIn.value)
NoWhiteSpace(chars) == \A i \in 1 .. Len(chars) : ~IsSpace(chars[i])
NoSpaceChar(chars) == \A i \in 1 .. Len(chars) : chars[i] # " "

\* as stated: names and stamps without the space character
C16_RoundTrip ==
    (HasParsed /\ pvMode = "emit"
     /\ NoSpaceChar(pvIn.pointName) /\ NoSpaceChar(pvIn.stamp))
    => ParsedAsWritten

\* as the code has it: names and stamps without any white space, which
\* _nextLine drops at both ends of a line
C16_RoundTripWithoutWhiteSpace ==
    (HasParsed /\ pvMode = "emit"
     /\ NoWhiteSpace(pvIn.pointName) /\ NoWhiteSpace(pvIn.stamp))
    => ParsedAsWritten

\* a state with both brackets and a value with a quote and a space came back
C16_Witness ==
    /\ pvMode = "emit"
    /\ pvIn.state = <<"]", "[">>
    /\ pvIn.value = <<"\"", " ">>
    /\ pvLine = <<"a", " ", "a", " ", "[", "[", "]", "]", "[", "]", " ",
                  "\"", "\"", "\"", " ", "\"">>
    /\ ParsedAsWritten

(***************************************************************************)
(* C17: in PointValue lines a [ inside the state is represented on the     *)
(* wire by [[ and a ] by ]], both when results are emitted and when        *)
(* requests are parsed.                                                    *)
(***************************************************************************)
HasBracket(state) ==
    state # Absent /\ \E i \in 1 .. Len(state) : state[i] \in {"[", "]"}

SwappedChar(c) ==
    CASE c = "[" -> <<"]", "[">>
      [] c = "]" -> <<"[", "]">>
      [] OTHER -> <<c>>

SwappedLine(pv) ==
    pv.pointName \o <<" ">> \o pv.stamp \o <<" ", "[">>
    \o Flatten([i \in 1 .. Len(pv.state) |-> SwappedChar(pv.state[i])])
    \o <<"]">> \o ValuePart(pv.value)

C18_StampMayBeLeftOut ==
    (/\ pvMode = "nostamp"
     /\ HasParsed
     /\ (pvIn.state # Absent \/ pvIn.value # Absent))
    => pvOut = Parsed("ok", pvIn.pointName, Absent, pvIn.state, pvIn.value)

(***************************************************************************)
(* The request reader: properties.                                         *)
(***************************************************************************)
\* the index of the line at which a call made at a request boundary stops
\* skipping: the first line that, trimmed, holds a space or is "0"; 0 when
\* the input ends before such a line
BoundaryLine(lines) ==
    LET found == {i \in 1 .. Len(lines) :
                     \/ " " \in Range(TrimLine(lines[i]))
                     \/ TrimLine(lines[i]) = <<"0">>}
    IN IF found = {} THEN 0
       ELSE CHOOSE i \in found : \A j \in found : i <= j

EndsAtBoundary(lines) ==
    \/ BoundaryLine(lines) = 0
    \/ TrimLine(lines[BoundaryLine(lines)]) = <<"0">>

\* the second field of the first line of the request, as a number
FirstLineVersion(lines) ==
    LET h == RequiredFields(Buffer(TrimLine(lines[BoundaryLine(lines)])), 2,
                            <<>>)
    IN IF h.error \/ _stringToInt(h.got[2]).error THEN 0
       ELSE _stringToInt(h.got[2]).value

VersionTooHigh(lines) ==
    /\ ~EndsAtBoundary(lines)
    /\ FirstLineVersion(lines) > 1

\* the lines written to stdout by the last call that look like a response
ResponsesWritten ==
    {i \in Len(readLast.stdout) + 1 .. Len(stdout) : " " \in Range(stdout[i])}

\* C19: an engine request whose first line carries a version greater than 1
\* sets status ERROR and unwinds to the resumption point, before any
\* further line of the request is read and without writing a response.
C19_VersionGuardUnwinds ==
    (readLast.op = "nextEngineRequest" /\ VersionTooHigh(readLast.stdin)) =>
        /\ readerStatus = RVPF_PIPE_STATUS_ERROR
        /\ mainPc = "returned"
        /\ exitCode = <<RVPF_PIPE_STATUS_ERROR>>
        /\ stdin = SubSeq(readLast.stdin, BoundaryLine(readLast.stdin) + 1,
                          Len(readLast.stdin))
        /\ ResponsesWritten = {}

\* C20: nextEngineRequest or nextSinkRequest, called at a request boundary
\* when the input ends or holds a line "0" before the first line of a
\* request, frees the request it allocated, leaves status OK and unwinds,
\* and main returns 0.
C20_StopsAtEndOrZero ==
    (/\ readLast.op \in {"nextEngineRequest", "nextSinkRequest"}
     /\ EndsAtBoundary(readLast.stdin)) =>
        /\ readLast.outcome = "stop"
        /\ readerStatus = RVPF_PIPE_STATUS_OK
        /\ mainPc = "returned"
        /\ exitCode = <<0>>
        /\ held = <<>>
        /\ live = readLast.live

\* a request was answered and the next call read a line "0"
C20_Witness ==
    /\ readLast.op \in {"nextEngineRequest", "nextSinkRequest"}
    /\ readLast.stdin # <<>>
    /\ TrimLine(readLast.stdin[1]) = <<"0">>
    /\ stdout # <<>>
    /\ readLast.outcome = "stop"
    /\ exitCode = <<0>>

\* the lines after the first line of the request that are not blank
LinesAfterFirst(lines) ==
    {i \in BoundaryLine(lines) + 1 .. Len(lines) : TrimLine(lines[i]) # <<>>}

\* the fields of the first line of the request after its requestID
FirstLineFields(lines, n) ==
    RequiredFields(
        RequiredFields(Buffer(TrimLine(lines[BoundaryLine(lines)])), 1,
                       <<>>).b,
        n, <<>>)

IsNatural(field) ==
    field # <<>> /\ \A i \in 1 .. Len(field) : field[i] \in Range(DigitChars)

\* the input holds the first line of a well-formed engine request of a
\* supported version, and ends before the lines it announces
TruncatedEngineFrame(lines) ==
    /\ ~EndsAtBoundary(lines)
    /\ LET f == FirstLineFields(lines, 4)
       IN /\ ~f.error
          /\ \A i \in 1 .. 4 : IsNatural(f.got[i])
          /\ Decimal(f.got[1], 0) <= 1
          /\ Cardinality(LinesAfterFirst(lines))
                 < 1 + Decimal(f.got[2], 0) + Decimal(f.got[3], 0)
                     + Decimal(f.got[4], 0)

\* the input holds the first line of a well-formed sink request of a
\* supported version, and ends before its PointValue line
TruncatedSinkFrame(lines) ==
    /\ ~EndsAtBoundary(lines)
    /\ LET f == FirstLineFields(lines, 2)
       IN /\ ~f.error
          /\ IsNatural(f.got[1])
          /\ Decimal(f.got[1], 0) <= 1
          /\ f.got[2] \in {<<"+">>, <<"-">>}
          /\ LinesAfterFirst(lines) = {}

\* C21: when the input ends after the first line of a request and before
\* every line the header announces, the call sets status ERROR and unwinds
\* to the resumption point, and no response is written.
C21_TruncatedFrameIsError ==
    (\/ readLast.op = "nextEngineRequest"
        /\ TruncatedEngineFrame(readLast.stdin)
     \/ readLast.op = "nextSinkRequest"
        /\ TruncatedSinkFrame(readLast.stdin)) =>
        /\ readLast.outcome = "error"
        /\ readerStatus = RVPF_PIPE_STATUS_ERROR
        /\ mainPc = "returned"
        /\ exitCode = <<RVPF_PIPE_STATUS_ERROR>>
        /\ held = <<>>
        /\ ResponsesWritten = {}

\* an engine request announced an input, and the input ended after the seed
C21_Witness ==
    /\ readLast.op = "nextEngineRequest"
    /\ TruncatedEngineFrame(readLast.stdin)
    /\ LinesAfterFirst(readLast.stdin) # {}
    /\ stdin = <<>>
    /\ readerStatus = RVPF_PIPE_STATUS_ERROR
    /\ mainPc = "returned"

\* the input holds the first line of a sink request of a supported version
\* with a type field, and a line after it
SinkFrame(lines) ==
    /\ ~EndsAtBoundary(lines)
    /\ ~FirstLineFields(lines, 2).error
    /\ IsNatural(FirstLineFields(lines, 2).got[1])
    /\ Decimal(FirstLineFields(lines, 2).got[1], 0) <= 1
    /\ LinesAfterFirst(lines) # {}

TypeField(lines) == FirstLineFields(lines, 2).got[2]

\* the line after the first line of the request
SecondLine(lines) ==
    TrimLine(lines[CHOOSE i \in LinesAfterFirst(lines) :
                       \A j \in LinesAfterFirst(lines) : i <= j])

\* a PointValue line carries a stamp when it has a second field which is
\* neither a bracketed state nor a quoted value
CarriesStamp(line) ==
    LET f == RequiredFields(Buffer(line), 2, <<>>)
    IN ~f.error /\ f.got[2][1] \notin {"[", "\""}

\* C22: the type + gives an UPDATE request and - a DELETE request, any
\* other type is ERROR; the PointValue line of an UPDATE without a stamp is
\* ERROR, and a DELETE accepts a line without a stamp.
C22_SinkTypeAndStamp ==
    (readLast.op = "nextSinkRequest" /\ SinkFrame(readLast.stdin)) =>
        IF TypeField(readLast.stdin) = <<"-">>
        THEN /\ readLast.outcome = "request"
             /\ held[1].requestType = "Delete"
        ELSE IF /\ TypeField(readLast.stdin) = <<"+">>
                /\ CarriesStamp(SecondLine(readLast.stdin))
        THEN /\ readLast.outcome = "request"
             /\ held[1].requestType = "Update"
        ELSE /\ readLast.outcome = "error"
             /\ readerStatus = RVPF_PIPE_STATUS_ERROR
             /\ mainPc = "returned"

(***************************************************************************)
(* C23: a line with a lone - where the value would stand is parsed with    *)
(* the deleted sentinel as its state, whatever state the line carries, and *)
(* with no value; isValueDeleted is true for exactly these point values;   *)
(* the state text DELETED in brackets is not a deletion.                   *)
(***************************************************************************)
LoneMinus == pvMode = "delete" /\ pvIn.value \in {Absent, <<>>}

C23_DeletedExactlyForLoneMinus ==
    HasParsed =>
        /\ LoneMinus => pvOut.state = PipeDeleted /\ pvOut.value = Absent
        /\ rvpf_pipe_isValueDeleted(pvOut) <=> LoneMinus

\* C23, amended: the point value is deleted exactly when the field in the
\* value position starts with -, whatever follows it; the state text
\* DELETED in brackets is kept as a text.
C23_DeletedExactlyForLeadingMinus ==
    HasParsed =>
        /\ pvMode = "delete" =>
               pvOut.state = PipeDeleted /\ pvOut.value = Absent
        /\ rvpf_pipe_isValueDeleted(pvOut) <=> pvMode = "delete"
        /\ (/\ pvMode = "emit"
            /\ NoWhiteSpace(pvIn.pointName) /\ NoWhiteSpace(pvIn.stamp)
            /\ pvIn.state = CharsOf(PipeDeleted)) =>
               /\ pvOut.state = CharsOf(PipeDeleted)
               /\ pvOut.state # PipeDeleted

\* a line with a bracketed state and a lone - was parsed as a deletion
C23_Witness ==
    /\ HasParsed
    /\ LoneMinus
    /\ pvIn.state = CharsOf(PipeDeleted)
    /\ rvpf_pipe_isValueDeleted(pvOut)

\* C24: whatever the input, a call of nextEngineRequest or nextSinkRequest
\* either returns a request or leaves through the resumption point with
\* status OK, ERROR or FATAL; the process is never killed.
C24_ParserNeverCrashes ==
    /\ mainPc # "crashed"
    /\ readLast.op \in {"nextEngineRequest", "nextSinkRequest"} =>
           \/ readLast.outcome = "request" /\ mainPc = "held" /\ held # <<>>
           \/ /\ mainPc = "returned"
              /\ exitCode \in {<<RVPF_PIPE_STATUS_OK>>,
                               <<RVPF_PIPE_STATUS_ERROR>>,
                               <<RVPF_PIPE_STATUS_FATAL>>}
(***************************************************************************)
(* The accessors of an engine request: properties.                         *)
(***************************************************************************)
\* the list an accessor reads
ListOf(name) ==
    CASE name = "getEngineInput" -> getRequest.inputs
      [] name = "getEnginePointParam" -> getRequest.pointParams
      [] name = "getEngineTransformParam" -> getRequest.transformParams
      [] OTHER -> <<>>

\* C25: each accessor returns the position-th element of its list for the
\* positions 1..count, and NULL for every other position, zero and the
\* negative positions included.
C25_NullOutsideRange ==
    getLast.name # "none" =>
        LET list == ListOf(getLast.name)
        IN  IF getLast.position \in 1..Len(list)
            THEN getLast.result = Element_(list[getLast.position])
            ELSE getLast.result = NullPointer

\* The part of C25 that the code keeps: the positions from zero upwards.
C25_NullFromZeroUpwards ==
    getLast.name # "none" /\ getLast.position >= 0 =>
        LET list == ListOf(getLast.name)
        IN  IF getLast.position \in 1..Len(list)
            THEN getLast.result = Element_(list[getLast.position])
            ELSE getLast.result = NullPointer
(***************************************************************************)
(* The value codec of the C store: properties.                             *)
(***************************************************************************)
NumberTypes ==
    {VALUE_TYPE_LONG, VALUE_TYPE_INTEGER, VALUE_TYPE_SHORT, VALUE_TYPE_BYTE}

\* the number handed to CStore_newValue, as a c_store_long_t
ArgAsLong ==
    IF storeArg.type = VALUE_TYPE_LONG THEN storeArg.long
    ELSE ToLong(storeArg.number)

\* C26: for every number of type LONG, INTEGER, SHORT or BYTE, negative
\* ones included, CStore_valueToLong of the value built by CStore_newValue
\* succeeds and gives the number back.
C26_NumbersRoundTrip ==
    storeOut.op = "valueToLong" /\ storeArg.type \in NumberTypes =>
        storeOut.ok /\ storeOut.long = ArgAsLong

\* The part of C26 that the code keeps: every type but SHORT, and the
\* SHORT numbers from zero upwards.
C26_RoundTripButNegativeShort ==
    /\ storeOut.op = "valueToLong"
    /\ storeArg.type \in NumberTypes
    /\ ~(storeArg.type = VALUE_TYPE_SHORT /\ storeArg.number < 0)
    => storeOut.ok /\ storeOut.long = ArgAsLong

\* from a 0-based offset of the runs: blocks of 1..MAX_BYTES_BLOCK bytes
\* that carry the payload from the byte sum on, then one length of zero,
\* then nothing
RECURSIVE ChunkStream(_, _, _, _)
ChunkStream(runs, offset, sum, total) ==
    /\ offset + 2 <= RunsLength(runs)
    /\ LET length == ByteAt(runs, offset) * 256 + ByteAt(runs, offset + 1)
       IN  IF length = 0
           THEN sum = total /\ offset + 2 = RunsLength(runs)
           ELSE /\ length <= MAX_BYTES_BLOCK
                /\ offset + 2 + length <= RunsLength(runs)
                /\ Bytes(Extract(runs, offset + 2, length))
                       = <<Slice(sum, length)>>
                /\ ChunkStream(runs, offset + 2 + length, sum + length,
                               total)

BuiltPayload ==
    /\ storePc = "value"
    /\ storeArg.type \in {VALUE_TYPE_STRING, VALUE_TYPE_BYTE_ARRAY}

\* C27: the value built for a STRING or BYTE_ARRAY payload of any length is
\* the type byte, the payload in blocks of 1..65534 bytes, each after its
\* two-byte length, and exactly one zero length at the end; joining the
\* blocks gives the payload back.
C27_PayloadIsChunked ==
    BuiltPayload =>
        /\ storeValue.overrun = 0
        /\ ByteAt(storeValue.value, 0) = storeArg.type
        /\ ChunkStream(storeValue.value, 1, 0, storeArg.length)
        /\ Bytes(_joinValue(storeValue, 1, <<>>).bytes)
               = Payload(storeArg.length)

\* The part of C27 that the code keeps: the payloads of 1..65531 bytes.
C27_ShortPayloadIsChunked ==
    BuiltPayload /\ storeArg.length \in 1..(MAX_BYTES_BLOCK - 3) =>
        /\ storeValue.overrun = 0
        /\ ByteAt(storeValue.value, 0) = storeArg.type
        /\ ChunkStream(storeValue.value, 1, 0, storeArg.length)
        /\ Bytes(_joinValue(storeValue, 1, <<>>).bytes)
               = Payload(storeArg.length)

\* the chain of lengths from a 0-based offset ends with a zero length
\* inside the runs, and no block runs past their end
RECURSIVE WellTerminated(_, _)
WellTerminated(runs, offset) ==
    /\ offset + 2 <= RunsLength(runs)
    /\ LET length == ByteAt(runs, offset) * 256 + ByteAt(runs, offset + 1)
       IN  \/ length = 0
           \/ /\ offset + 2 + length <= RunsLength(runs)
              /\ WellTerminated(runs, offset + 2 + length)

MalformedSplit ==
    /\ storeValue.size > 0
    /\ ByteAt(storeValue.value, 0) \in
           {VALUE_TYPE_STRING, VALUE_TYPE_BYTE_ARRAY, VALUE_TYPE_STATE}
    /\ ~WellTerminated(storeValue.value, 1)

\* C28: decoding a STRING, BYTE_ARRAY or STATE value whose chain of blocks
\* is malformed reports a failure to the caller and reads nothing beyond
\* the size bytes of the value.
C28_MalformedIsReported ==
    storeOut.op = "valueToString" /\ MalformedSplit =>
        ~storeOut.ok /\ ~storeOut.beyond /\ ~storeOut.killed

\* What holds of C28: a well-formed STRING value is decoded within its
\* size bytes.
C28_WellFormedStaysInside ==
    /\ storeOut.op = "valueToString"
    /\ storeValue.size > 0
    /\ ByteAt(storeValue.value, 0) = VALUE_TYPE_STRING
    /\ WellTerminated(storeValue.value, 1)
    => storeOut.ok /\ ~storeOut.beyond /\ ~storeOut.killed
(***************************************************************************)
(* rvpf_ssl_open: the address.                                             *)
(***************************************************************************)
\* an address of the form [host]:port, the port a non-empty string of
\* decimal digits that is not zero
HostPortAddress(address) ==
    /\ address # <<"NULL">>
    /\ \E i \in 1 .. Len(address) - 1 :
          /\ address[i] = ":"
          /\ \A j \in i + 1 .. Len(address) : address[j] \in Range(DigitChars)
          /\ \E j \in i + 1 .. Len(address) : address[j] # "0"

LocalHost == <<"1", "2", "7", ".", "0", ".", "0", ".", "1">>

\* nothing before the colon of the address
EmptyHost(address) ==
    address[1] = ":" /\ \A j \in 2 .. Len(address) : address[j] # ":"

\* C29: rvpf_ssl_open on a stream that is not open accepts exactly the
\* addresses [host]:port with a port of decimal digits that is not zero, an
\* empty host standing for 127.0.0.1; any other address is answered
\* BAD_ADDRESS and leaves the stream not open.
C29_AcceptsExactlyHostPort ==
    [][~stream.open /\ streamLast'.name = "open" =>
          IF HostPortAddress(streamArg')
          THEN /\ streamLast'.ret # RVPF_SSL_BAD_ADDRESS
               /\ EmptyHost(streamArg') => stream'.host = LocalHost
          ELSE /\ streamLast'.ret = RVPF_SSL_BAD_ADDRESS
               /\ ~stream'.open]_vars

\* The part of C29 that the code keeps: the addresses of that form are
\* accepted, and an address without a colon, without a digit after its last
\* colon, with something after the digits or with a port of zero is
\* refused.
C29_AcceptsHostPort ==
    [][~stream.open /\ streamLast'.name = "open" =>
          /\ HostPortAddress(streamArg') =>
                /\ streamLast'.ret # RVPF_SSL_BAD_ADDRESS
                /\ EmptyHost(streamArg') => stream'.host = LocalHost
          /\ streamLast'.ret = RVPF_SSL_BAD_ADDRESS => ~stream'.open
          /\ (/\ ~HostPortAddress(streamArg')
              /\ streamLast'.ret # RVPF_SSL_BAD_ADDRESS)
             => \E i \in 1 .. Len(streamArg') - 2 :
                   /\ streamArg'[i] = ":"
                   /\ streamArg'[i + 1] \in {"+", "-", " "}]_vars
(***************************************************************************)
(* C30: close on a TLS stream or on an XPVPC context that is already       *)
(* closed.                                                                 *)
(***************************************************************************)
\* a close on a context whose stream is not open
ClosesAgain == xpPc = "live" /\ ~ctx.open /\ lastOp'.name = "close"

\* the call transmits nothing and reads nothing
XpNoTraffic ==
    /\ wire' = wire
    /\ lastOp'.read = 0
    /\ lastOp'.verifs = <<>>

\* as stated, for the XPVPC context: a close that follows a close makes no
\* I/O and leaves the status and every other field as they were
C30_AsStatedStep ==
    ClosesAgain /\ lastOp.name = "close" => XpNoTraffic /\ ctx' = ctx

C30_CloseAgainStep ==
    ClosesAgain =>
        /\ XpNoTraffic
        /\ lastOp'.ret = RVPF_XPVPC_OK
        /\ ctx' = [ctx EXCEPT !.status = RVPF_XPVPC_OK,
                              !.sslStatus = RVPF_SSL_OK,
                              !.pending = 0, !.text = <<>>]

C30_StreamCloseAgain ==
    [][~stream.open /\ streamLast'.name = "close" =>
          /\ streamLast'.io = 0
          /\ streamLast'.ret = stream.status
          /\ stream' = stream]_vars

(***************************************************************************)
(* The claims about the store bridge.                                      *)
(***************************************************************************)
LiveCount == Cardinality({s \in ProxySlots : proxies[s].live})

\* no call of RVPF_CStore_context or CStore_dispose is under way
Quiescent ==
    /\ proxyPc = "running"
    /\ \A t \in ProxyThreads : proxyThread[t].pc = "idle"

\* C31: with one host thread, as long as a context is live the cached
\* handle of the hosted runtime is valid: the calls that create further
\* contexts do not replace or invalidate it.  Violated: the call stores its
\* vm argument in _javaVM at once, so a second call with no vm loses the
\* handle of the running Java VM and fails to create another.
C31_HandleStaysValid ==
    (proxyThreads = 1 /\ proxyPc = "running" /\ LiveCount > 0)
        => _getJNIEnv(ProxyGlobals)

\* C32: when the calls of the host threads have completed, the counter is
\* the number of live contexts, the runtime is loaded while a context is
\* live and not left loaded when none is.  The host passes its Java VM, so
\* that the handle is the same in every call.  Violated: ++_contexts and
\* --_contexts are not atomic.
C32_CounterIsLiveContexts ==
    (Quiescent /\ proxyVm = "host")
        => /\ _contexts = LiveCount
           /\ LiveCount > 0 => _storeProxyClass
           /\ LiveCount = 0 => ~_storeProxyClass

\* a step of CStore_interrupt on the context s
InterruptStep(s) ==
    /\ proxyThread' = proxyThread
    /\ proxyPc' = "running"
    /\ proxies[s].live
    /\ proxyLast'.name = "interrupt"
    /\ proxyLast'.slot = s

C40_Step ==
    \A s \in ProxySlots :
        (InterruptStep(s) /\ proxies[s].connected)
            => /\ proxyLast'.hosted = "interrupt"
               /\ proxies'[s].connected

\* C40: CStore_interrupt calls the interrupt method of the hosted store and
\* a context that was connected before it is connected after it.  Violated:
\* the method called is disconnect.
C40_InterruptKeepsConnected == [][C40_Step]_vars

(***************************************************************************)
(* The claims about the text buffers.                                      *)
(***************************************************************************)
\* what the claim has of a growth: the capacity at least doubles, the bytes
\* from the old capacity to the new are zero, the bytes from the new
\* capacity on are not written
GrowthAsStated(g) ==
    /\ g.newSize >= 2 * g.oldSize
    /\ \A i \in Cells : (i >= g.oldSize /\ i < g.newSize) => g.after[i] = "nul"
    /\ \A i \in Cells : i >= g.newSize => g.after[i] = Foreign

\* C33: whenever a PIPE or XPVPC text buffer grows, its capacity at least
\* doubles, the added region is zero-filled and no byte at or beyond the
\* new capacity is written.  Violated by the growth of _addChar, whose
\* memset starts at the new capacity.
C33_GrowthZeroFillsTheAddedRegion ==
    textLast.growth.grew => GrowthAsStated(textLast.growth)

\* the same for the PIPE buffer alone, which holds
C33_PipeGrowth ==
    (textKind = "pipe" /\ textLast.growth.grew)
        => GrowthAsStated(textLast.growth)

(***************************************************************************)
(* The claims about the encoding of text.                                  *)
(***************************************************************************)
\* what the claim has for one byte: the entities, &#N; for a C0 control
\* byte other than TAB, LF and CR, and the byte itself otherwise
StatedByte(b, quote) ==
    IF b = LT THEN EntityLt
    ELSE IF b = GT THEN EntityGt
    ELSE IF b = AMP THEN EntityAmp
    ELSE IF b = quote /\ b = QUOT THEN EntityQuot
    ELSE IF b = quote /\ b = APOS THEN EntityApos
    ELSE IF b < SPACE /\ b \notin {TAB, LF, CR}
    THEN <<AMP, 35>> \o DecimalBytes(b) \o <<59>>
    ELSE <<b>>

RECURSIVE StatedBytes(_, _)
StatedBytes(bytes, quote) ==
    IF bytes = <<>> THEN <<>>
    ELSE StatedByte(Head(bytes), quote) \o StatedBytes(Tail(bytes), quote)

Stated(bytes, quote) == StatedBytes(TrimRight(TrimLeft(bytes)), quote)

\* C34: the text is emitted trimmed, with <, > and & and the active quote
\* replaced by their entities, each C0 control byte other than TAB, LF and
\* CR replaced by &#N; and every other byte unchanged.  Violated in a build
\* whose char is signed by a byte from 128 on.
C34_EncodedAsStated ==
    encOut.done => encOut.bytes = Stated(encArg.bytes, encArg.quote)

\* the same for the texts of bytes below 128 and for the builds whose char
\* is unsigned, which holds
C34_EncodedAsStatedBelow128 ==
    (/\ encOut.done
     /\ \/ ~encArg.signedChar
        \/ \A i \in 1 .. Len(encArg.bytes) : encArg.bytes[i] < 128)
        => encOut.bytes = Stated(encArg.bytes, encArg.quote)

(***************************************************************************)
(* The claim about the shape of the handles map.                           *)
(***************************************************************************)
PowersOfTwo == {1, 2, 4, 8, 16}

\* the value of key in a table of a capacity, 0 when absent
ValueIn(tbl, cap, key) ==
    LET chain == tbl[_indexFor(cap, key)]
        p == ChainFind(chain, key, 1)
    IN IF p = 0 THEN 0 ELSE chain[p].value

MapShape(cap, sz, thr) ==
    /\ cap \in PowersOfTwo
    /\ thr = (cap * 3) \div 4
    /\ sz <= thr

C35_Step ==
    /\ MapShape(capacity', size', threshold')
    /\ capacity' # capacity
          => /\ size > threshold - 1
             /\ capacity' = 2 * capacity
             /\ \A k \in Keys :
                   ValueIn(table, capacity, k) # 0
                      => ValueIn(table', capacity', k)
                            = ValueIn(table, capacity, k)

\* C35: after every operation on the handles map the capacity is a power
\* of two and size <= threshold = floor(capacity x 0.75); the capacity
\* changes only in the rehash of a put that brings the size over the
\* threshold, which doubles it exactly and keeps every mapping.
C35_ShapeAndRehash ==
    MapShape(capacity, size, threshold) /\ [][C35_Step]_vars

\* a map of capacity 4 whose fourth entry has been put: rehashed to 8
C35_Witness ==
    /\ capacity = 8
    /\ size = 4
    /\ Len(WalkEntries(table, capacity, 0)) = 4

\* the bytes the splitter writes for a payload of n bytes: the payload, two
\* bytes of length for each block, and the two bytes of the terminator
SplitBytes(n) == n + 2 * ((n + MAX_BYTES_BLOCK - 1) \div MAX_BYTES_BLOCK) + 2

\* C36: for every payload length the size reserved by _splitLength is at
\* least the number of bytes _splitValue writes, so that CStore_newValue
\* never writes past the value it allocated.  Violated by a payload of
\* 65532 bytes, for which _splitLength reserves 65534 bytes and the
\* splitter writes 65536.
C36_ReservedCoversWritten ==
    (storePc = "value"
     /\ storeArg.type \in {VALUE_TYPE_STRING, VALUE_TYPE_BYTE_ARRAY})
        => /\ _splitLength(storeArg.length) >= SplitBytes(storeArg.length)
           /\ storeValue.overrun = 0

\* the same for the payloads of all the other lengths of the model, which
\* holds
C36_ReservedCoversWrittenBut65532 ==
    (storePc = "value"
     /\ storeArg.type \in {VALUE_TYPE_STRING, VALUE_TYPE_BYTE_ARRAY}
     /\ storeArg.length # MAX_BYTES_BLOCK - 2)
        => /\ _splitLength(storeArg.length) >= SplitBytes(storeArg.length)
           /\ storeValue.overrun = 0

(***************************************************************************)
(* The claims about what the PIPE endpoint writes to stdout.               *)
(***************************************************************************)
\* the lines ahead of the first line that starts a request or stops the
\* reader, blank lines left out, without the white space around them
RECURSIVE SkippedLines(_)
SkippedLines(lines) ==
    IF lines = <<>> THEN <<>>
    ELSE LET line == TrimLine(lines[1])
         IN  IF line = <<>> THEN SkippedLines(Tail(lines))
             ELSE IF " " \in Range(line) \/ line = <<"0">> THEN <<>>
             ELSE <<line>> \o SkippedLines(Tail(lines))

\* the end of a request appends its response: the line of the request id
\* and of the summary, and the result lines
ResponseAppended ==
    /\ Len(stdout') > Len(stdout)
    /\ SubSeq(stdout', 1, Len(stdout)) = stdout
    /\ LET first == stdout'[Len(stdout) + 1]
           id == held[1].requestID
       IN  /\ Len(first) > Len(id) + 1
           /\ SubSeq(first, 1, Len(id) + 1) = id \o <<" ">>

C37_AsStatedStep ==
    /\ mainPc = "boundary" => stdout' = stdout
    /\ mainPc = "held" => ResponseAppended

\* C37 as stated: only the response lines of ended requests are written to
\* stdout; reading the input, the skipped lines included, writes nothing.
C37_SkippedLinesAreSilent == [][C37_AsStatedStep]_vars

C37_Step ==
    /\ mainPc = "boundary" => stdout' = stdout \o SkippedLines(stdin)
    /\ mainPc = "held" => ResponseAppended

\* C37: the end of a request writes its response lines to stdout; the call
\* that reads the next request writes back, in order and trimmed, each line
\* without a space other than "0" that it skips, and nothing for a blank
\* line, for the line that starts a request or for the line "0".
C37_SkippedLinesAreEchoed == [][C37_Step]_vars

\* a call that read a request or stopped has echoed a line it skipped
C37_Witness ==
    /\ readLast.op \in {"nextEngineRequest", "nextSinkRequest"}
    /\ Len(stdout) > Len(readLast.stdout)
    /\ \E i \in 1 .. Len(readLast.stdin) : readLast.stdin[i] = <<>>

C38_Step ==
    readerStatus # RVPF_PIPE_STATUS_OK
        => /\ readerStatus' # RVPF_PIPE_STATUS_OK
           /\ exitCode' # <<RVPF_PIPE_STATUS_OK>>

\* C38: once the status of the PIPE endpoint is ERROR or FATAL it is never
\* set back to OK, so a driver that goes on after a recoverable error
\* returns a status that is not zero when the input ends later.  Violated:
\* _stop sets the status to OK whatever it was.
C38_StatusNeverBackToOK == [][C38_Step]_vars

\* C39: the auto-flush threshold is kept per context, so that setAutoFlush
\* on one context does not change the threshold of another context of the
\* process: a context that has just been created, on which no call has been
\* made, has the threshold 0 a context starts with.  Violated: the
\* threshold is the one variable _autoFlush of the process, and the new
\* context flushes at the threshold set through a context disposed before.
C39_ThresholdIsPerContext ==
    (xpPc = "live" /\ lastOp.name = "create") => _autoFlush = 0

====
